---- MODULE Spec2Model ----
(***************************************************************************)
(* A model of cmft's image library (src/cmft/image.cpp): the in-memory     *)
(* image (width, height, format, mip count, face count, byte buffer), the  *)
(* offset arithmetic over faces and mips, the in-place transforms, the     *)
(* cube-map strip remaps and the DDS / KTX codecs.                         *)
(*                                                                         *)
(* Buffers are functions from byte offsets 0..n-1 to bytes.  An access     *)
(* outside a buffer is undefined behaviour in the C++ code; the model      *)
(* records it in `ub` and lets a read return any byte.                     *)
(***************************************************************************)
EXTENDS Integers, Sequences, FiniteSets, TLC

VARIABLES
    image,   \* the image the caller holds (an Image record)
    src,     \* the image as it was before the operations under study
    file,    \* the bytes of the file last written or about to be read
    hist,    \* the operations applied so far, oldest first
    out,     \* the result of the last read-only operation
    ub       \* TRUE once an operation has accessed memory out of bounds

vars == <<image, src, file, hist, out, ub>>

----------------------------------------------------------------------------
(* Bounds of the model. *)

\* Largest width and height of the images drawn as inputs.
MaxDim == 2
\* Largest mip count of the images drawn as inputs.
MaxMips == 2

----------------------------------------------------------------------------
(* Pixel formats and their sizes. *)

TextureFormats ==
    <<"BGR8", "RGB8", "RGB16", "RGB16F", "RGB32F", "RGBE",
      "BGRA8", "RGBA8", "RGBA16", "RGBA16F", "RGBA32F">>

FormatSet == {TextureFormats[i] : i \in 1..Len(TextureFormats)}

\* s_imageDataInfo[format].m_bytesPerPixel
bytesPerPixelOf(format) ==
    CASE format \in {"BGR8", "RGB8"}                 -> 3
      [] format \in {"RGB16", "RGB16F"}              -> 6
      [] format = "RGB32F"                           -> 12
      [] format \in {"RGBE", "BGRA8", "RGBA8"}       -> 4
      [] format \in {"RGBA16", "RGBA16F"}            -> 8
      [] format = "RGBA32F"                          -> 16
      [] OTHER                                       -> 0

Max2(a, b) == IF a > b THEN a ELSE b
Min2(a, b) == IF a > b THEN b ELSE a

RECURSIVE Pow2(_)
Pow2(n) == IF n = 0 THEN 1 ELSE 2 * Pow2(n - 1)

\* max(UINT32_C(1), _dim >> mip)
mipDim(dim, mip) == Max2(1, dim \div Pow2(mip))

Byte == 0..255

\* The byte a freshly made test image holds at offset i: nearly unique
\* labels, never zero, so that a moved or a padded byte is told apart.
Label(i) == 1 + (i % 251)

----------------------------------------------------------------------------
(* Image: size and offset arithmetic. *)

\* width*height*bytesPerPixel of one mip level of one face.
mipLevelSize(img, mip) ==
    mipDim(img.m_width, mip) * mipDim(img.m_height, mip)
        * bytesPerPixelOf(img.m_format)

RECURSIVE sumMipSizes(_, _)
\* Sum of the level sizes of mips 0..n-1 (the inner loop of the offset code).
sumMipSizes(img, n) ==
    IF n = 0 THEN 0 ELSE sumMipSizes(img, n - 1) + mipLevelSize(img, n - 1)

RECURSIVE sumMipPixels(_, _)
sumMipPixels(img, n) ==
    IF n = 0 THEN 0
    ELSE sumMipPixels(img, n - 1)
            + mipDim(img.m_width, n - 1) * mipDim(img.m_height, n - 1)

\* imageGetNumPixels: pixels of all mips, times the face count.
imageGetNumPixels(img) == sumMipPixels(img, img.m_numMips) * img.m_numFaces

\* imageGetMipOffsets: _offsets[face][mip], faces outer, mips inner.
imageGetMipOffsets(img, face, mip) ==
    face * sumMipSizes(img, img.m_numMips) + sumMipSizes(img, mip)

\* The size the data model prescribes for an image's buffer.
expectedDataSize(img) ==
    imageGetNumPixels(img) * bytesPerPixelOf(img.m_format)

\* The fields of struct Image other than the buffer itself.
ImageInfo(w, h, format, numMips, numFaces, dataSize) ==
    [m_width |-> w, m_height |-> h, m_format |-> format,
     m_numMips |-> numMips, m_numFaces |-> numFaces,
     m_dataSize |-> dataSize]

\* An image record: the fields, and m_data as the bytes it points at.
Image(w, h, format, numMips, numFaces, dataSize, data) ==
    [m_width |-> w, m_height |-> h, m_format |-> format,
     m_numMips |-> numMips, m_numFaces |-> numFaces,
     m_dataSize |-> dataSize, m_data |-> data]

\* An image's fields without its bytes.
infoOf(img) ==
    ImageInfo(img.m_width, img.m_height, img.m_format, img.m_numMips,
              img.m_numFaces, img.m_dataSize)

\* The fields `info` with the buffer `data`.
withData(info, data) ==
    Image(info.m_width, info.m_height, info.m_format, info.m_numMips,
          info.m_numFaces, info.m_dataSize, data)

\* A well-formed input image whose bytes are labels.
TestImage(w, h, format, numMips, numFaces) ==
    LET hdr == Image(w, h, format, numMips, numFaces, 0, <<>>)
        size == expectedDataSize(hdr)
    IN  Image(w, h, format, numMips, numFaces, size,
              [i \in 0..(size - 1) |-> Label(i)])

NoImage == Image(0, 0, "Unknown", 0, 0, 0, <<>>)
NoFile == <<>>

\* The bytes buf[from .. from+n-1] as a tuple; a byte outside the buffer
\* is read as `junk`.
readBytes(buf, from, n, junk) ==
    [k \in 1..n |-> IF (from + k - 1) \in DOMAIN buf
                    THEN buf[from + k - 1] ELSE junk]

----------------------------------------------------------------------------
(* imageGetPixel *)

\* The byte offset imageGetPixel reads at: the face/mip loops, then
\* _y*pitch + _x*bytesPerPixel with pitch taken from the base width.
imageGetPixelOffset(img, x, y, mip, face) ==
    LET bytesPerPixel == bytesPerPixelOf(img.m_format)
        pitch == img.m_width * bytesPerPixel
        \* for face < _face: for mip < _mip: offset += level size
        offset == face * sumMipSizes(img, mip)
    IN  offset + y * pitch + x * bytesPerPixel

\* imageGetPixel with _format = _image.m_format: memcpy of one pixel.
imageGetPixel(img, x, y, mip, face, junk) ==
    readBytes(img.m_data, imageGetPixelOffset(img, x, y, mip, face),
              bytesPerPixelOf(img.m_format), junk)

GetPixelImages ==
    {TestImage(w, h, f, m, n) :
        w \in 1..MaxDim, h \in 1..MaxDim, f \in FormatSet,
        m \in 1..MaxMips, n \in {1, 6}}

InitGetPixel ==
    /\ image \in GetPixelImages
    /\ src = image
    /\ file = NoFile
    /\ hist = <<>>
    /\ out = <<>>
    /\ ub = FALSE

GetPixel ==
    /\ hist = <<>>
    /\ \E mip \in 0..(image.m_numMips - 1), face \in 0..(image.m_numFaces - 1) :
       \E x \in 0..(mipDim(image.m_width, mip) - 1),
          y \in 0..(mipDim(image.m_height, mip) - 1) :
         LET off == imageGetPixelOffset(image, x, y, mip, face)
             oob == off + bytesPerPixelOf(image.m_format) > image.m_dataSize
         IN  /\ \E junk \in (IF oob THEN {0, 255} ELSE {0}) :
                  out' = imageGetPixel(image, x, y, mip, face, junk)
             /\ ub' = oob
             /\ hist' = <<[op |-> "imageGetPixel", x |-> x, y |-> y,
                           mip |-> mip, face |-> face]>>
    /\ UNCHANGED <<image, src, file>>

NextGetPixel == GetPixel

SpecGetPixel == InitGetPixel /\ [][NextGetPixel]_vars

\* The bytes stored for pixel (x, y) of mip `mip` of face `face`.
storedPixel(img, x, y, mip, face) ==
    LET bpp == bytesPerPixelOf(img.m_format)
        at == imageGetMipOffsets(img, face, mip)
                + (y * mipDim(img.m_width, mip) + x) * bpp
    IN  [k \in 1..bpp |-> img.m_data[at + k - 1]]

\* C1: imageGetPixel in the image's own format returns exactly the bytes
\* stored for pixel (x, y) of mip `mip` of face `face`, at the face-major,
\* mip-minor offset of imageGetMipOffsets plus (y*mipWidth + x)*bytesPerPixel.
C1_GetPixelReturnsStoredPixel ==
    (hist # <<>> /\ hist[1].op = "imageGetPixel") =>
        out = storedPixel(image, hist[1].x, hist[1].y, hist[1].mip, hist[1].face)

----------------------------------------------------------------------------
(* imageTransform: in-place rotations and flips of one face. *)

\* Largest side of the images the transforms are applied to.
MaxSide == 3
\* Number of transform operations applied in a row.
MaxOps == 2

\* A swap that forgets the temporary: b is copied over a, then a (already
\* overwritten) over b.
cmft_swap_noTemp(buf, a, b, size) ==
    LET buf1 == [i \in DOMAIN buf |->
                    IF i >= a /\ i < a + size THEN buf[b + (i - a)] ELSE buf[i]]
    IN  [i \in DOMAIN buf |->
            IF i >= b /\ i < b + size THEN buf1[a + (i - b)] ELSE buf1[i]]

\* cmft_swap(_a, _b, _size): copy a to a temporary, b over a, the temporary
\* over b.  a and b are byte offsets into buf.
cmft_swap(buf, a, b, size) ==
    LET tmp  == [k \in 0..(size - 1) |-> buf[a + k]]
        buf1 == [i \in DOMAIN buf |->
                    IF i >= a /\ i < a + size THEN buf[b + (i - a)] ELSE buf[i]]
    IN  [i \in DOMAIN buf |->
            IF i >= b /\ i < b + size THEN tmp[i - b] ELSE buf1[i]]

RECURSIVE applySwaps(_, _)
\* The swaps of a loop nest, in the order the loops issue them.
applySwaps(buf, swaps) ==
    IF swaps = <<>> THEN buf
    ELSE applySwaps(cmft_swap(buf, swaps[1].aa, swaps[1].bb, swaps[1].size),
                    Tail(swaps))

\* The body of a `for yy < height: for xx < width` nest, one entry per
\* iteration in loop order: whether the iteration swaps, and what.
loopNest(width, height, body(_, _)) ==
    LET all == [k \in 1..(width * height) |->
                    body((k - 1) \div width, (k - 1) % width)]
    IN  SelectSeq(all, LAMBDA s : s.cond)

\* IMAGE_OP_ROT_90 on one mip level at byte offset `face`.
rot90Swaps(face, width, height, bytesPerPixel) ==
    LET pitch == width * bytesPerPixel
        body(yy, xx) ==
            LET yyEnd == height - 1 - yy
                xxEnd == width - 1 - xx
                rowPtr    == face + yy * pitch
                columnPtr == face + yyEnd * bytesPerPixel
            IN  [cond |-> xx < yyEnd,
                 aa   |-> rowPtr + xx * bytesPerPixel,
                 bb   |-> columnPtr + xxEnd * pitch,
                 size |-> bytesPerPixel]
    IN  loopNest(width, height, body)

\* IMAGE_OP_ROT_180 on one mip level: rows swapped end against end with
\* their pixels reversed, then the middle row of an odd height reversed.
rot180Swaps(face, width, height, bytesPerPixel) ==
    LET pitch == width * bytesPerPixel
        body(yy, xx) ==
            LET yyEnd == height - 1 - yy
                xxEnd == width - 1 - xx
            IN  [cond |-> yy < yyEnd,
                 aa   |-> face + pitch * yy + bytesPerPixel * xx,
                 bb   |-> face + pitch * yyEnd + bytesPerPixel * xxEnd,
                 size |-> bytesPerPixel]
        middle(yy, xx) ==
            LET xxEnd == width - 1 - xx
            IN  [cond |-> (2 * yy = height - 1) /\ xx < xxEnd,
                 aa   |-> face + pitch * yy + bytesPerPixel * xx,
                 bb   |-> face + pitch * yy + bytesPerPixel * xxEnd,
                 size |-> bytesPerPixel]
    IN  loopNest(width, height, body) \o loopNest(width, height, middle)

\* IMAGE_OP_ROT_270 on one mip level.
rot270Swaps(face, width, height, bytesPerPixel) ==
    LET pitch == width * bytesPerPixel
        body(yy, xx) ==
            LET rowPtr    == face + yy * pitch
                columnPtr == face + yy * bytesPerPixel
            IN  [cond |-> xx > yy,
                 aa   |-> rowPtr + xx * bytesPerPixel,
                 bb   |-> columnPtr + xx * pitch,
                 size |-> bytesPerPixel]
    IN  loopNest(width, height, body)

\* IMAGE_OP_FLIP_X on one mip level: whole rows swapped end against end.
flipXSwaps(face, width, height, bytesPerPixel) ==
    LET pitch == width * bytesPerPixel
        body(yy, xx) ==
            LET yyEnd == height - 1 - yy
            IN  [cond |-> xx = 0 /\ yy < yyEnd,
                 aa   |-> face + pitch * yy,
                 bb   |-> face + pitch * yyEnd,
                 size |-> pitch]
    IN  loopNest(width, height, body)

\* IMAGE_OP_FLIP_Y on one mip level: the pixels of each row reversed.
flipYSwaps(face, width, height, bytesPerPixel) ==
    LET pitch == width * bytesPerPixel
        body(yy, xx) ==
            LET xxEnd == width - 1 - xx
                rowPtr == face + pitch * yy
            IN  [cond |-> xx < xxEnd,
                 aa   |-> rowPtr + bytesPerPixel * xx,
                 bb   |-> rowPtr + bytesPerPixel * xxEnd,
                 size |-> bytesPerPixel]
    IN  loopNest(width, height, body)

ImageOps == {"ROT_90", "ROT_180", "ROT_270", "FLIP_X", "FLIP_Y"}

\* The swaps one operation makes on one mip level; a rotation of an image
\* that is not square only warns.
opSwaps(img, op, imageFace, mip) ==
    LET width  == mipDim(img.m_width, mip)
        height == mipDim(img.m_height, mip)
        bpp    == bytesPerPixelOf(img.m_format)
        face   == imageGetMipOffsets(img, imageFace, mip)
        square == img.m_width = img.m_height
    IN  CASE op = "ROT_90"  -> IF square THEN rot90Swaps(face, width, height, bpp) ELSE <<>>
          [] op = "ROT_180" -> IF square THEN rot180Swaps(face, width, height, bpp) ELSE <<>>
          [] op = "ROT_270" -> IF square THEN rot270Swaps(face, width, height, bpp) ELSE <<>>
          [] op = "FLIP_X"  -> flipXSwaps(face, width, height, bpp)
          [] op = "FLIP_Y"  -> flipYSwaps(face, width, height, bpp)

RECURSIVE transformMips(_, _, _, _, _)
\* for mip < m_numMips: the operation's swaps on that level.
transformMips(img, buf, op, imageFace, mip) ==
    IF mip >= img.m_numMips THEN buf
    ELSE transformMips(img, applySwaps(buf, opSwaps(img, op, imageFace, mip)),
                       op, imageFace, mip + 1)

\* imageTransform(_image, op | face): one operation on one face, in place.
imageTransform(img, op, imageFace) ==
    [img EXCEPT !.m_data = transformMips(img, img.m_data, op, imageFace, 0)]

TransformFormats == {"RGB8", "RGBE"}

TransformImages ==
    {TestImage(w, h, f, m, n) :
        w \in 1..MaxSide, h \in 1..MaxSide, f \in TransformFormats,
        m \in 1..MaxMips, n \in {1, 6}}

InitTransform ==
    /\ image \in TransformImages
    /\ src = image
    /\ file = NoFile
    /\ hist = <<>>
    /\ out = <<>>
    /\ ub = FALSE

Transform ==
    /\ Len(hist) < MaxOps
    /\ \E op \in ImageOps, imageFace \in {0, image.m_numFaces - 1} :
         /\ image' = imageTransform(image, op, imageFace)
         /\ hist' = Append(hist, [op |-> op, face |-> imageFace,
                                  before |-> image])
    /\ UNCHANGED <<src, file, out, ub>>

NextTransform == Transform

SpecTransform == InitTransform /\ [][NextTransform]_vars

\* The last two operations were `first` then `second`, on the same face.
appliedPair(first, second) ==
    /\ Len(hist) >= 2
    /\ hist[Len(hist) - 1].op = first
    /\ hist[Len(hist)].op = second
    /\ hist[Len(hist) - 1].face = hist[Len(hist)].face

\* The image as it was before its last two operations.
beforeLastTwo == hist[Len(hist) - 1].before

\* C4: FLIP_X twice, FLIP_Y twice and (on a square image) ROT_180 twice on
\* the same face each leave the buffer byte for byte as it was, odd
\* dimensions included.
C4_FlipAndRot180AreInvolutions ==
    \A op \in {"FLIP_X", "FLIP_Y", "ROT_180"} :
        appliedPair(op, op) => image = beforeLastTwo

\* C4 witness: a 3x3 image with mips whose face was turned by 180 degrees
\* twice, the first turn having changed it.
C4_Witness ==
    /\ appliedPair("ROT_180", "ROT_180")
    /\ image.m_width = 3 /\ image.m_height = 3 /\ image.m_numMips = 2
    /\ hist[Len(hist)].before # beforeLastTwo

\* C5: on a square image ROT_270 after ROT_90, and ROT_90 after ROT_270,
\* on the same face give the original bytes back.
C5_Rot90Rot270Identity ==
    /\ appliedPair("ROT_90", "ROT_270") => image = beforeLastTwo
    /\ appliedPair("ROT_270", "ROT_90") => image = beforeLastTwo

\* C6: on a square image ROT_90 twice on a face gives what ROT_180 once
\* gives, ROT_90 moving pixel (x, y) of an NxN level to (N-1-y, x).
C6_Rot90TwiceIsRot180 ==
    appliedPair("ROT_90", "ROT_90") =>
        image = imageTransform(beforeLastTwo, "ROT_180", hist[Len(hist)].face)

----------------------------------------------------------------------------
(* Cube map <-> horizontal strip. *)

\* Largest mip count of the cube maps and strips drawn as inputs.
MaxStripMips == 3

imageIsCubemap(img) == (6 = img.m_numFaces) /\ (img.m_width = img.m_height)

imageIsHStrip(img) == img.m_width = 6 * img.m_height

\* memcpy(dst + c.dst, src + c.src, c.n).  A byte read outside src is
\* `junk`; a byte written outside dst is lost.
memcpyRow(dstBuf, srcBuf, c, junk) ==
    [i \in DOMAIN dstBuf |->
        IF i >= c.dst /\ i < c.dst + c.n
        THEN IF (c.src + (i - c.dst)) \in DOMAIN srcBuf
             THEN srcBuf[c.src + (i - c.dst)] ELSE junk
        ELSE dstBuf[i]]

RECURSIVE applyCopies(_, _, _, _)
\* The row copies of a loop nest, in the order the loops issue them.
applyCopies(dstBuf, srcBuf, copies, junk) ==
    IF copies = <<>> THEN dstBuf
    ELSE applyCopies(memcpyRow(dstBuf, srcBuf, copies[1], junk), srcBuf,
                     Tail(copies), junk)

\* Some copy of `copies` reads outside a source of srcSize bytes or writes
\* outside a destination of dstSize bytes.
copiesOutOfBounds(copies, dstSize, srcSize) ==
    \E k \in 1..Len(copies) :
        \/ copies[k].dst + copies[k].n > dstSize
        \/ copies[k].src + copies[k].n > srcSize

\* The body of a `for face < 6: for mip < numMips: for yy < rows(mip)` nest,
\* one entry per iteration in loop order.
faceMipRowNest(numMips, maxRows, body(_, _, _)) ==
    LET all == [k \in 1..(6 * numMips * maxRows) |->
                    body((k - 1) \div (numMips * maxRows),
                         ((k - 1) \div maxRows) % numMips,
                         (k - 1) % maxRows)]
    IN  SelectSeq(all, LAMBDA c : c.cond)

\* The fields of the strip imageHStripFromCubemap makes of cube map _src.
hstripInfo(img) ==
    LET dstWidth  == img.m_width * 6
        dstHeight == img.m_width
        shape == ImageInfo(dstWidth, dstHeight, img.m_format, img.m_numMips, 1, 0)
    IN  ImageInfo(dstWidth, dstHeight, img.m_format, img.m_numMips, 1,
                  sumMipSizes(shape, img.m_numMips))

\* The row copies of imageHStripFromCubemap.
hstripCopies(img) ==
    LET bytesPerPixel == bytesPerPixelOf(img.m_format)
        dst == hstripInfo(img)
        body(face, mip, yy) ==
            LET srcMipSize  == mipDim(img.m_width, mip)
                srcMipPitch == srcMipSize * bytesPerPixel
                dstMipPitch == srcMipPitch * 6
                srcFaceData == imageGetMipOffsets(img, face, mip)
                dstFaceData == sumMipSizes(dst, mip) + srcMipPitch * face
            IN  [cond |-> yy < srcMipSize,
                 src  |-> srcFaceData + yy * srcMipPitch,
                 dst  |-> dstFaceData + yy * dstMipPitch,
                 n    |-> srcMipPitch]
    IN  faceMipRowNest(img.m_numMips, Max2(1, img.m_width), body)

\* imageHStripFromCubemap(_dst, _src) for a cube map _src; the bytes of
\* the freshly allocated strip that no copy writes are `junk`.
imageHStripFromCubemap(img, junk) ==
    LET dst == hstripInfo(img)
        fresh == [i \in 0..(dst.m_dataSize - 1) |-> junk]
    IN  withData(dst, applyCopies(fresh, img.m_data, hstripCopies(img), junk))

\* The fields of the cube map imageCubemapFromHStrip makes of strip _src.
cubemapFromHStripInfo(img) ==
    LET dstSize == img.m_height
        shape == ImageInfo(dstSize, dstSize, img.m_format, img.m_numMips, 6, 0)
    IN  ImageInfo(dstSize, dstSize, img.m_format, img.m_numMips, 6,
                  6 * sumMipSizes(shape, img.m_numMips))

\* The row copies of imageCubemapFromHStrip.
cubemapFromHStripCopies(img) ==
    LET bytesPerPixel == bytesPerPixelOf(img.m_format)
        dst == cubemapFromHStripInfo(img)
        body(face, mip, yy) ==
            LET dstMipSize  == mipDim(img.m_height, mip)
                dstMipPitch == dstMipSize * bytesPerPixel
                srcMipPitch == dstMipPitch * 6
                dstFaceData == imageGetMipOffsets(dst, face, mip)
                srcFaceData == imageGetMipOffsets(img, 0, mip) + dstMipPitch * face
            IN  [cond |-> yy < dstMipSize,
                 src  |-> srcFaceData + yy * srcMipPitch,
                 dst  |-> dstFaceData + yy * dstMipPitch,
                 n    |-> dstMipPitch]
    IN  faceMipRowNest(img.m_numMips, Max2(1, img.m_height), body)

\* imageCubemapFromHStrip(_dst, _src) for a strip _src.
imageCubemapFromHStrip(img, junk) ==
    LET dst == cubemapFromHStripInfo(img)
        fresh == [i \in 0..(dst.m_dataSize - 1) |-> junk]
    IN  withData(dst, applyCopies(fresh, img.m_data,
                                  cubemapFromHStripCopies(img), junk))

\* Cube maps of every face size and mip count, strips, and an image that
\* is neither.
StripImages ==
    {TestImage(n, n, f, m, 6) :
        n \in 1..MaxSide, f \in FormatSet, m \in 1..MaxStripMips}
    \cup {TestImage(6 * n, n, f, m, 1) :
        n \in 1..MaxDim, f \in {"RGB8", "RGBA32F"}, m \in 1..MaxStripMips}
    \cup {TestImage(2, 1, "RGB8", 1, 1)}

InitStrip ==
    /\ image \in StripImages
    /\ src = image
    /\ file = NoFile
    /\ hist = <<>>
    /\ out = <<>>
    /\ ub = FALSE

\* imageHStripFromCubemap(_cubemap): in place; nothing happens to an image
\* that is no cube map.
HStripFromCubemap ==
    /\ Len(hist) < MaxOps
    /\ IF imageIsCubemap(image)
       THEN LET copies == hstripCopies(image)
                oob == copiesOutOfBounds(copies, hstripInfo(image).m_dataSize,
                                         image.m_dataSize)
            IN  /\ \E junk \in {0, 255} :
                     image' = imageHStripFromCubemap(image, junk)
                /\ ub' = (ub \/ oob)
       ELSE UNCHANGED <<image, ub>>
    /\ hist' = Append(hist, [op |-> "imageHStripFromCubemap",
                             ok |-> imageIsCubemap(image), before |-> image])
    /\ UNCHANGED <<src, file, out>>

\* imageCubemapFromHStrip(_image): in place; nothing happens to an image
\* that is no strip.
CubemapFromHStrip ==
    /\ Len(hist) < MaxOps
    /\ IF imageIsHStrip(image)
       THEN LET copies == cubemapFromHStripCopies(image)
                oob == copiesOutOfBounds(copies,
                                         cubemapFromHStripInfo(image).m_dataSize,
                                         image.m_dataSize)
            IN  /\ \E junk \in {0, 255} :
                     image' = imageCubemapFromHStrip(image, junk)
                /\ ub' = (ub \/ oob)
       ELSE UNCHANGED <<image, ub>>
    /\ hist' = Append(hist, [op |-> "imageCubemapFromHStrip",
                             ok |-> imageIsHStrip(image), before |-> image])
    /\ UNCHANGED <<src, file, out>>

NextStrip == HStripFromCubemap \/ CubemapFromHStrip

SpecStrip == InitStrip /\ [][NextStrip]_vars

\* C7: a cube map turned into a horizontal strip and back is the cube map
\* it was, bytes and fields, for every face size and every mip count from
\* 1 up.
C7_StripRoundTrip ==
    ( /\ Len(hist) >= 2
      /\ hist[Len(hist) - 1].op = "imageHStripFromCubemap"
      /\ hist[Len(hist) - 1].ok
      /\ hist[Len(hist)].op = "imageCubemapFromHStrip"
      /\ hist[Len(hist)].ok )
    => image = hist[Len(hist) - 1].before

----------------------------------------------------------------------------
(* Files: little-endian 32-bit fields and flag words. *)

\* The four bytes fwrite puts out for a uint32_t, least significant first.
U32(n) ==
    <<n % 256, (n \div 256) % 256, (n \div 65536) % 256,
      (n \div 16777216) % 256>>

\* The uint32_t fread takes from the four bytes at position pos (from 0).
readU32(f, pos) ==
    f[pos + 1] + 256 * f[pos + 2] + 65536 * f[pos + 3] + 16777216 * f[pos + 4]

\* n zero bytes.
zeroBytes(n) == [k \in 1..n |-> 0]

\* The bytes of buffer buf (offsets 0..n-1) as a sequence.
bufferBytes(buf, n) == [k \in 1..n |-> buf[k - 1]]

RECURSIVE BitAnd(_, _)
\* a & b
BitAnd(a, b) ==
    IF a = 0 \/ b = 0 THEN 0
    ELSE (a % 2) * (b % 2) + 2 * BitAnd(a \div 2, b \div 2)

\* a | b
BitOr(a, b) == a + b - BitAnd(a, b)

\* fread(data, 1, size, fp) at position pos (from 0) into a fresh buffer:
\* the bytes the file does not have stay as malloc left them, `junk`.
freadData(f, pos, size, junk) ==
    [i \in 0..(size - 1) |->
        IF pos + i + 1 <= Len(f) THEN f[pos + i + 1] ELSE junk]

----------------------------------------------------------------------------
(* DDS *)

DDS_MAGIC == 542327876
DDS_HEADER_SIZE == 124
DDS_PIXELFORMAT_SIZE == 32
DDS_DX10_HEADER_SIZE == 20
DDS_DX10 == 808540228

D3DFMT_R8G8B8 == 20
D3DFMT_A8R8G8B8 == 21
D3DFMT_A8B8G8R8 == 32
D3DFMT_A16B16G16R16 == 36
D3DFMT_A16B16G16R16F == 113
D3DFMT_A32B32G32R32F == 116

DDSD_CAPS == 1
DDSD_HEIGHT == 2
DDSD_WIDTH == 4
DDSD_PITCH == 8
DDSD_PIXELFORMAT == 4096
DDSD_MIPMAPCOUNT == 131072

DDPF_ALPHAPIXELS == 1
DDPF_FOURCC == 4
DDPF_RGB == 64
DDPF_RGBA == BitOr(DDPF_RGB, DDPF_ALPHAPIXELS)
DDS_PF_BC_24 == 1048576
DDS_PF_BC_32 == 2097152
DDS_PF_BC_48 == 4194304

DDSCAPS_COMPLEX == 8
DDSCAPS_TEXTURE == 4096
DDSCAPS_MIPMAP == 4194304

DDSCAPS2_CUBEMAP == 512
DDS_CUBEMAP_ALLFACES == 64512

DXGI_FORMAT_UNKNOWN == 0
DXGI_FORMAT_R32G32B32A32_FLOAT == 2
DXGI_FORMAT_R16G16B16A16_FLOAT == 10
DXGI_FORMAT_R16G16B16A16_UINT == 12

DDS_DIMENSION_TEXTURE2D == 3
D3D10_RESOURCE_MISC_TEXTURECUBE == 4

s_ddsValidFormats == <<"BGR8", "BGRA8", "RGBA16", "RGBA16F", "RGBA32F">>

\* A DdsPixelFormat.  The four bit masks (0x00ff0000, 0x0000ff00,
\* 0x000000ff and 0xff000000 or 0), which no code path interprets, are
\* kept as the bytes they are written as.
DdsPixelFormat(flags, fourcc, rgbBitCount, aBitMask) ==
    [m_size |-> DDS_PIXELFORMAT_SIZE, m_flags |-> flags, m_fourcc |-> fourcc,
     m_rgbBitCount |-> rgbBitCount, m_rBitMask |-> <<0, 0, 255, 0>>,
     m_gBitMask |-> <<0, 255, 0, 0>>, m_bBitMask |-> <<255, 0, 0, 0>>,
     m_aBitMask |-> aBitMask]

\* getDdsPixelFormat: the entry of s_ddsPixelFormat for a format.
getDdsPixelFormat(format) ==
    CASE format = "BGR8"    -> DdsPixelFormat(DDPF_RGB, D3DFMT_R8G8B8, 24, <<0, 0, 0, 0>>)
      [] format = "BGRA8"   -> DdsPixelFormat(DDPF_RGBA, D3DFMT_A8B8G8R8, 32, <<0, 0, 0, 255>>)
      [] format = "RGBA16"  -> DdsPixelFormat(DDPF_FOURCC, DDS_DX10, 64, <<0, 0, 0, 255>>)
      [] format = "RGBA16F" -> DdsPixelFormat(DDPF_FOURCC, DDS_DX10, 64, <<0, 0, 0, 255>>)
      [] OTHER              -> DdsPixelFormat(DDPF_FOURCC, DDS_DX10, 128, <<0, 0, 0, 255>>)

getDdsDxgiFormat(format) ==
    CASE format = "RGBA16"  -> DXGI_FORMAT_R16G16B16A16_UINT
      [] format = "RGBA16F" -> DXGI_FORMAT_R16G16B16A16_FLOAT
      [] format = "RGBA32F" -> DXGI_FORMAT_R32G32B32A32_FLOAT
      [] OTHER              -> DXGI_FORMAT_UNKNOWN

\* s_translateDdsPfBitCount: the flag of a bit count, 0 if it has none.
translateDdsPfBitCount(bitCount) ==
    CASE bitCount = 24 -> DDS_PF_BC_24
      [] bitCount = 32 -> DDS_PF_BC_32
      [] bitCount = 48 -> DDS_PF_BC_48
      [] OTHER         -> 0

\* s_translateDdsFormat: first entry that matches, "Unknown" if none does.
translateDdsFormat(ddsFormat) ==
    CASE ddsFormat = D3DFMT_R8G8B8                    -> "BGR8"
      [] ddsFormat = D3DFMT_A8R8G8B8                  -> "BGRA8"
      [] ddsFormat = D3DFMT_A16B16G16R16              -> "RGBA16"
      [] ddsFormat = D3DFMT_A16B16G16R16F             -> "RGBA16F"
      [] ddsFormat = D3DFMT_A32B32G32R32F             -> "RGBA32F"
      [] ddsFormat = BitOr(DDS_PF_BC_24, DDPF_RGB)    -> "BGR8"
      [] ddsFormat = BitOr(DDS_PF_BC_32, DDPF_RGBA)   -> "BGRA8"
      [] ddsFormat = BitOr(DDS_PF_BC_48, DDPF_RGB)    -> "RGB16"
      [] OTHER                                        -> "Unknown"

\* A table that takes RGBA16F files for RGBA16 ones.
translateDdsDxgiFormat_confused(dxgiFormat) ==
    CASE dxgiFormat = DXGI_FORMAT_R16G16B16A16_UINT   -> "RGBA16"
      [] dxgiFormat = DXGI_FORMAT_R16G16B16A16_FLOAT  -> "RGBA16"
      [] dxgiFormat = DXGI_FORMAT_R32G32B32A32_FLOAT  -> "RGBA32F"
      [] OTHER                                        -> "Unknown"

\* s_translateDdsDxgiFormat
translateDdsDxgiFormat(dxgiFormat) ==
    CASE dxgiFormat = DXGI_FORMAT_R16G16B16A16_UINT   -> "RGBA16"
      [] dxgiFormat = DXGI_FORMAT_R16G16B16A16_FLOAT  -> "RGBA16F"
      [] dxgiFormat = DXGI_FORMAT_R32G32B32A32_FLOAT  -> "RGBA32F"
      [] OTHER                                        -> "Unknown"

\* contains(_format, _formatList)
contains(format, formatList) ==
    \E ii \in 1..Len(formatList) : formatList[ii] = format

\* ddsHeaderFromImage: the header, and the DX10 extension when the pixel
\* format asks for one.
ddsHeaderFromImage(img) ==
    LET ddsPixelFormat == getDdsPixelFormat(img.m_format)
        bytesPerPixel == bytesPerPixelOf(img.m_format)
        hasMipMaps == img.m_numMips > 1
        hasMultipleFaces == img.m_numFaces > 0
        isCubemap == img.m_numFaces = 6
    IN  [hdr |->
           [m_size |-> DDS_HEADER_SIZE,
            m_flags |-> DDSD_CAPS + DDSD_HEIGHT + DDSD_WIDTH + DDSD_PIXELFORMAT
                          + (IF hasMipMaps THEN DDSD_MIPMAPCOUNT ELSE 0)
                          + DDSD_PITCH,
            m_height |-> img.m_height,
            m_width |-> img.m_width,
            m_pitchOrLinearSize |-> img.m_width * bytesPerPixel,
            m_depth |-> 0,
            m_mipMapCount |-> img.m_numMips,
            m_pixelFormat |-> ddsPixelFormat,
            m_caps |-> DDSCAPS_TEXTURE
                         + (IF hasMipMaps THEN DDSCAPS_MIPMAP ELSE 0)
                         + (IF hasMipMaps \/ hasMultipleFaces
                            THEN DDSCAPS_COMPLEX ELSE 0),
            m_caps2 |-> IF isCubemap
                        THEN BitOr(DDSCAPS2_CUBEMAP, DDS_CUBEMAP_ALLFACES) ELSE 0,
            m_caps3 |-> 0, m_caps4 |-> 0, m_reserved2 |-> 0],
         dxt10 |->
           [m_dxgiFormat |-> getDdsDxgiFormat(img.m_format),
            m_resourceDimension |-> DDS_DIMENSION_TEXTURE2D,
            m_miscFlags |-> IF isCubemap THEN D3D10_RESOURCE_MISC_TEXTURECUBE ELSE 0,
            m_arraySize |-> 1,
            m_miscFlags2 |-> 0]]

\* The 124 bytes imageSaveDds writes for a header, field by field
\* (m_reserved1 is 11 words).
ddsHeaderBytes(h) ==
    U32(h.m_size) \o U32(h.m_flags) \o U32(h.m_height) \o U32(h.m_width)
    \o U32(h.m_pitchOrLinearSize) \o U32(h.m_depth) \o U32(h.m_mipMapCount)
    \o zeroBytes(44)
    \o U32(h.m_pixelFormat.m_size) \o U32(h.m_pixelFormat.m_flags)
    \o U32(h.m_pixelFormat.m_fourcc) \o U32(h.m_pixelFormat.m_rgbBitCount)
    \o h.m_pixelFormat.m_rBitMask \o h.m_pixelFormat.m_gBitMask
    \o h.m_pixelFormat.m_bBitMask \o h.m_pixelFormat.m_aBitMask
    \o U32(h.m_caps) \o U32(h.m_caps2) \o U32(h.m_caps3) \o U32(h.m_caps4)
    \o U32(h.m_reserved2)

\* The 20 bytes of a DX10 extension.
ddsHeaderDxt10Bytes(d) ==
    U32(d.m_dxgiFormat) \o U32(d.m_resourceDimension) \o U32(d.m_miscFlags)
    \o U32(d.m_arraySize) \o U32(d.m_miscFlags2)

\* The file a header, an optional extension and a payload make.
ddsFile(h, d, withDxt10, payload) ==
    U32(DDS_MAGIC) \o ddsHeaderBytes(h)
    \o (IF withDxt10 THEN ddsHeaderDxt10Bytes(d) ELSE <<>>)
    \o payload

\* imageSaveDds: magic, header, the extension when the four-character code
\* is DX10, then m_dataSize bytes of m_data.
imageSaveDds(img) ==
    LET hd == ddsHeaderFromImage(img)
    IN  ddsFile(hd.hdr, hd.dxt10, DDS_DX10 = hd.hdr.m_pixelFormat.m_fourcc,
                bufferBytes(img.m_data, img.m_dataSize))

\* The header fields imageLoadDds reads, by their position in the file.
ddsHeaderOf(f) ==
    [m_size |-> readU32(f, 4), m_flags |-> readU32(f, 8),
     m_height |-> readU32(f, 12), m_width |-> readU32(f, 16),
     m_pitchOrLinearSize |-> readU32(f, 20), m_depth |-> readU32(f, 24),
     m_mipMapCount |-> readU32(f, 28),
     m_pixelFormat |->
        [m_size |-> readU32(f, 76), m_flags |-> readU32(f, 80),
         m_fourcc |-> readU32(f, 84), m_rgbBitCount |-> readU32(f, 88),
         m_rBitMask |-> SubSeq(f, 93, 96), m_gBitMask |-> SubSeq(f, 97, 100),
         m_bBitMask |-> SubSeq(f, 101, 104), m_aBitMask |-> SubSeq(f, 105, 108)],
     m_caps |-> readU32(f, 108), m_caps2 |-> readU32(f, 112),
     m_caps3 |-> readU32(f, 116), m_caps4 |-> readU32(f, 120),
     m_reserved2 |-> readU32(f, 124)]

\* hasDdsDxt10: DX10 four-character code, and bit 0x4 of the header's
\* m_flags (the code tests ddsHeader.m_flags, not the pixel format's).
hasDdsDxt10(h) ==
    DDS_DX10 = h.m_pixelFormat.m_fourcc /\ BitAnd(h.m_flags, DDPF_FOURCC) # 0

\* The header passes imageLoadDds' validation.
ddsHeaderValid(h) ==
    LET required == DDSD_CAPS + DDSD_HEIGHT + DDSD_WIDTH + DDSD_PIXELFORMAT
        isCubemap == BitAnd(h.m_caps2, DDSCAPS2_CUBEMAP) # 0
    IN  /\ DDS_HEADER_SIZE = h.m_size
        /\ BitAnd(h.m_flags, required) = required
        /\ BitAnd(h.m_caps, DDSCAPS_TEXTURE) # 0
        /\ ~(isCubemap /\ DDS_CUBEMAP_ALLFACES
                            # BitAnd(h.m_caps2, DDS_CUBEMAP_ALLFACES))

\* The format the tables give: by DXGI format with an extension, else by
\* four-character code or by pixel format flags and bit count.
ddsTableFormat(h, dxgiFormat) ==
    IF hasDdsDxt10(h)
    THEN translateDdsDxgiFormat(dxgiFormat)
    ELSE LET ddsBcFlag == translateDdsPfBitCount(h.m_pixelFormat.m_rgbBitCount)
             ddsFormat == IF BitAnd(h.m_pixelFormat.m_flags, DDPF_FOURCC) # 0
                          THEN h.m_pixelFormat.m_fourcc
                          ELSE BitOr(h.m_pixelFormat.m_flags, ddsBcFlag)
         IN  translateDdsFormat(ddsFormat)

RECURSIVE ddsGuessFormat(_, _, _, _)
\* The guess for a format the tables do not know: for ii over the six
\* entries of s_ddsValidFormats, the terminator (whose size is read from
\* before s_imageDataInfo, `junk`) included, a match sets the format to
\* TextureFormat::Enum(ii), and the last match stays.
ddsGuessFormat(bytesPerPixel, ii, format, junk) ==
    IF ii > Len(s_ddsValidFormats) THEN format
    ELSE LET size == IF ii < Len(s_ddsValidFormats)
                     THEN bytesPerPixelOf(s_ddsValidFormats[ii + 1])
                     ELSE junk
         IN  ddsGuessFormat(bytesPerPixel, ii + 1,
                            IF bytesPerPixel = size
                            THEN TextureFormats[ii + 1] ELSE format,
                            junk)

\* imageLoadDds on a file that holds at least the magic and the header
\* (and the extension when the header asks for it).
imageLoadDds(f, junk) ==
    LET h0 == ddsHeaderOf(f)
        withDxt10 == hasDdsDxt10(h0)
        dxgiFormat == IF withDxt10 THEN readU32(f, 128) ELSE 0
        mipMapCount == IF h0.m_mipMapCount = 0 THEN 1 ELSE h0.m_mipMapCount
        isCubemap == BitAnd(h0.m_caps2, DDSCAPS2_CUBEMAP) # 0
        known == ddsTableFormat(h0, dxgiFormat)
        guessed == known = "Unknown"
        format == IF guessed
                  THEN ddsGuessFormat((h0.m_pixelFormat.m_rgbBitCount \div 8) % 256,
                                      0, "Unknown", junk)
                  ELSE known
        numFaces == IF isCubemap THEN 6 ELSE 1
        shape == ImageInfo(h0.m_width, h0.m_height, format, mipMapCount, numFaces, 0)
        dataSize == expectedDataSize(shape)
        fpCurrentPos == 4 + DDS_HEADER_SIZE
                          + (IF withDxt10 THEN DDS_DX10_HEADER_SIZE ELSE 0)
        fpRemaining == Len(f) - fpCurrentPos
        rewind == fpRemaining = dataSize - DDS_DX10_HEADER_SIZE
        from == fpCurrentPos - (IF rewind THEN DDS_DX10_HEADER_SIZE ELSE 0)
        fail == [ok |-> FALSE, image |-> NoImage, rewind |-> FALSE,
                 guessed |-> FALSE, ub |-> FALSE, hang |-> FALSE]
    IN  IF readU32(f, 0) # DDS_MAGIC \/ ~ddsHeaderValid(h0) THEN fail
        ELSE IF format = "Unknown" THEN [fail EXCEPT !.guessed = TRUE, !.ub = TRUE]
        ELSE IF mipMapCount >= 256
             THEN [fail EXCEPT !.guessed = guessed, !.ub = guessed, !.hang = TRUE]
        ELSE [ok |-> TRUE,
              image |-> Image(h0.m_width, h0.m_height, format,
                              mipMapCount % 256, numFaces, dataSize,
                              freadData(f, from, dataSize, junk)),
              rewind |-> rewind, guessed |-> guessed, ub |-> guessed,
              hang |-> FALSE]

\* imageSave(_image, _fileName, ImageFileType::DDS) succeeds.
canSaveDds(img) == contains(img.m_format, s_ddsValidFormats)

DdsImages ==
    {TestImage(w, h, f, m, n) :
        w \in 1..MaxDim, h \in 1..MaxDim, f \in FormatSet,
        m \in 1..MaxMips, n \in {1, 6}}

InitDds ==
    /\ image \in DdsImages
    /\ src = image
    /\ file = NoFile
    /\ hist = <<>>
    /\ out = <<>>
    /\ ub = FALSE

\* imageSave to a DDS file: refused for a format DDS does not hold.
SaveDds ==
    /\ hist = <<>>
    /\ file' = IF canSaveDds(image) THEN imageSaveDds(image) ELSE file
    /\ hist' = Append(hist, [op |-> "imageSaveDds", ok |-> canSaveDds(image)])
    /\ UNCHANGED <<image, src, out, ub>>

\* imageLoad of the DDS file written.
LoadDds ==
    /\ Len(hist) = 1 /\ hist[1].ok
    /\ \E junk \in {0, 255} :
         LET r == imageLoadDds(file, junk)
         IN  /\ image' = IF r.ok THEN r.image ELSE image
             /\ out' = [rewind |-> r.rewind, guessed |-> r.guessed]
             /\ ub' = (ub \/ r.ub)
             /\ hist' = Append(hist, [op |-> "imageLoadDds", ok |-> r.ok])
    /\ UNCHANGED <<src, file>>

NextDds == SaveDds \/ LoadDds

SpecDds == InitDds /\ [][NextDds]_vars

\* A DDS file was saved and loaded back.
ddsRoundTripped ==
    /\ Len(hist) = 2
    /\ hist[1].op = "imageSaveDds"
    /\ hist[2].op = "imageLoadDds"

\* C8: an image in a format DDS holds (BGR8, BGRA8, RGBA16, RGBA16F,
\* RGBA32F), of 1 or 6 faces and any mip count, saved as DDS and loaded
\* back, has the width, height, format, mip count, face count, size and
\* bytes it had, and the loader's 20-byte rewind does not fire.
C8_DdsRoundTrip ==
    ddsRoundTripped =>
        /\ hist[2].ok
        /\ image = src
        /\ ~out.rewind
        /\ ~out.guessed

\* C8 witness: a cube map with mips in a format that needs the DX10
\* extension came back from its file.
C8_Witness ==
    /\ ddsRoundTripped
    /\ hist[2].ok
    /\ src.m_format = "RGBA16F"
    /\ src.m_numFaces = 6
    /\ src.m_numMips = 2
    /\ image.m_data = src.m_data

\* C18: the header imageSaveDds writes (ddsHeaderFromImage) has
\* DDSCAPS_COMPLEX in m_caps exactly when the image has more than one mip
\* level or more than one face; an image of one face and one mip level is
\* written without it.
C18_ComplexIffMipsOrFaces ==
    (hist # <<>> /\ hist[1].op = "imageSaveDds" /\ hist[1].ok)
        => (BitAnd(ddsHeaderOf(file).m_caps, DDSCAPS_COMPLEX) # 0)
              = (src.m_numMips > 1 \/ src.m_numFaces > 1)

----------------------------------------------------------------------------
(* KTX *)

KTX_MAGIC == <<171, 75, 84, 88, 32, 49, 49, 187, 13, 10, 26, 10>>
KTX_MAGIC_LEN == 12
KTX_ENDIAN_REF == 67305985
KTX_HEADER_SIZE == 52
KTX_UNPACK_ALIGNMENT == 4

GL_UNSIGNED_BYTE == 5121
GL_UNSIGNED_SHORT == 5123
GL_FLOAT == 5126
GL_HALF_FLOAT == 5131
GL_RGB == 6407
GL_RGBA == 6408
GL_RGBA32F == 34836
GL_RGB32F == 34837
GL_RGBA16F == 34842
GL_RGB16F == 34843
GL_RGBA16UI == 36214
GL_RGB16UI == 36215
GL_RGBA8UI == 36220
GL_RGB8UI == 36221

s_ktxValidFormats ==
    <<"RGB8", "RGB16", "RGB16F", "RGB32F", "RGBA8", "RGBA16", "RGBA16F",
      "RGBA32F">>

\* s_imageDataInfo[format].m_numChanels
numChanelsOf(format) ==
    IF format \in {"BGR8", "RGB8", "RGB16", "RGB16F", "RGB32F"} THEN 3 ELSE 4

\* pixelDataTypeToGlType(s_imageDataInfo[format].m_pixelType)
glTypeOf(format) ==
    CASE format \in {"RGB16", "RGBA16"}              -> GL_UNSIGNED_SHORT
      [] format \in {"RGB16F", "RGBA16F"}            -> GL_HALF_FLOAT
      [] format \in {"RGB32F", "RGBA32F"}            -> GL_FLOAT
      [] OTHER                                       -> GL_UNSIGNED_BYTE

\* s_glSizedInternalFormats[format]
getGlSizedInternalFormat(format) ==
    CASE format = "RGB8"    -> [m_glInternalFormat |-> GL_RGB8UI,   m_glFormat |-> GL_RGB]
      [] format = "RGB16"   -> [m_glInternalFormat |-> GL_RGB16UI,  m_glFormat |-> GL_RGB]
      [] format = "RGB16F"  -> [m_glInternalFormat |-> GL_RGB16F,   m_glFormat |-> GL_RGB]
      [] format = "RGB32F"  -> [m_glInternalFormat |-> GL_RGB32F,   m_glFormat |-> GL_RGB]
      [] format = "RGBA8"   -> [m_glInternalFormat |-> GL_RGBA8UI,  m_glFormat |-> GL_RGBA]
      [] format = "RGBA16"  -> [m_glInternalFormat |-> GL_RGBA16UI, m_glFormat |-> GL_RGBA]
      [] format = "RGBA16F" -> [m_glInternalFormat |-> GL_RGBA16F,  m_glFormat |-> GL_RGBA]
      [] format = "RGBA32F" -> [m_glInternalFormat |-> GL_RGBA32F,  m_glFormat |-> GL_RGBA]
      [] OTHER              -> [m_glInternalFormat |-> 0, m_glFormat |-> 0]

\* s_translateKtxFormat: first entry that matches, "Unknown" if none does.
translateKtxFormat(glInternalFormat) ==
    CASE glInternalFormat = GL_RGB      -> "RGB8"
      [] glInternalFormat = GL_RGB8UI   -> "RGB8"
      [] glInternalFormat = GL_RGB16UI  -> "RGB16"
      [] glInternalFormat = GL_RGB16F   -> "RGB16F"
      [] glInternalFormat = GL_RGB32F   -> "RGB32F"
      [] glInternalFormat = GL_RGBA     -> "RGBA8"
      [] glInternalFormat = GL_RGBA8UI  -> "RGBA8"
      [] glInternalFormat = GL_RGBA16UI -> "RGBA16"
      [] glInternalFormat = GL_RGBA16F  -> "RGBA16F"
      [] glInternalFormat = GL_RGBA32F  -> "RGBA32F"
      [] OTHER                          -> "Unknown"

ktxHeaderFromImage(img) ==
    LET sized == getGlSizedInternalFormat(img.m_format)
    IN  [m_endianness |-> KTX_ENDIAN_REF,
         m_glType |-> glTypeOf(img.m_format),
         m_glTypeSize |-> bytesPerPixelOf(img.m_format) \div numChanelsOf(img.m_format),
         m_glFormat |-> sized.m_glFormat,
         m_glInternalFormat |-> sized.m_glInternalFormat,
         m_glBaseInternalFormat |-> sized.m_glFormat,
         m_pixelWidth |-> img.m_width,
         m_pixelHeight |-> img.m_height,
         m_pixelDepth |-> 0,
         m_numArrayElements |-> 0,
         m_numFaces |-> img.m_numFaces,
         m_numMips |-> img.m_numMips,
         m_bytesKeyValue |-> 0]

\* The 52 bytes of a header, field by field.
ktxHeaderBytes(h) ==
    U32(h.m_endianness) \o U32(h.m_glType) \o U32(h.m_glTypeSize)
    \o U32(h.m_glFormat) \o U32(h.m_glInternalFormat)
    \o U32(h.m_glBaseInternalFormat) \o U32(h.m_pixelWidth)
    \o U32(h.m_pixelHeight) \o U32(h.m_pixelDepth)
    \o U32(h.m_numArrayElements) \o U32(h.m_numFaces) \o U32(h.m_numMips)
    \o U32(h.m_bytesKeyValue)

\* (KTX_UNPACK_ALIGNMENT-1)-((size + KTX_UNPACK_ALIGNMENT-1)&(KTX_UNPACK_ALIGNMENT-1))
ktxRounding(size) ==
    (KTX_UNPACK_ALIGNMENT - 1)
        - BitAnd(size + KTX_UNPACK_ALIGNMENT - 1, KTX_UNPACK_ALIGNMENT - 1)

\* What imageSaveKtx writes for one face of one mip, one entry per fwrite:
\* the face at once when its rows need no rounding, else each row and its
\* rounding; then the face rounding.
ktxFaceChunks(img, mip, face) ==
    LET width  == mipDim(img.m_width, mip)
        height == mipDim(img.m_height, mip)
        pitch == width * bytesPerPixelOf(img.m_format)
        faceSize == pitch * height
        pitchRounding == ktxRounding(pitch)
        faceRounding == ktxRounding(faceSize)
        faceData == imageGetMipOffsets(img, face, mip)
        whole == <<[kind |-> "face", mip |-> mip, face |-> face,
                    bytes |-> [k \in 1..faceSize |-> img.m_data[faceData + k - 1]]]>>
        rows == [k \in 1..(2 * height) |->
                    LET yy == (k - 1) \div 2
                    IN  IF k % 2 = 1
                        THEN [kind |-> "row", mip |-> mip, face |-> face,
                              bytes |-> [j \in 1..pitch |->
                                           img.m_data[faceData + yy * pitch + j - 1]]]
                        ELSE [kind |-> "rowRounding", mip |-> mip, face |-> face,
                              bytes |-> zeroBytes(pitchRounding)]]
    IN  (IF pitchRounding = 0 THEN whole ELSE rows)
        \o (IF faceRounding # 0
            THEN <<[kind |-> "faceRounding", mip |-> mip, face |-> face,
                    bytes |-> zeroBytes(faceRounding)]>>
            ELSE <<>>)

RECURSIVE ktxFacesChunks(_, _, _)
\* for face < m_numFaces, from `face` on.
ktxFacesChunks(img, mip, face) ==
    IF face >= img.m_numFaces THEN <<>>
    ELSE ktxFaceChunks(img, mip, face) \o ktxFacesChunks(img, mip, face + 1)

\* What imageSaveKtx writes for one mip: the face size, the faces, the mip
\* rounding.
ktxMipChunks(img, mip) ==
    LET pitch == mipDim(img.m_width, mip) * bytesPerPixelOf(img.m_format)
        faceSize == pitch * mipDim(img.m_height, mip)
        mipSize == faceSize * img.m_numFaces
        mipRounding == ktxRounding(mipSize)
    IN  <<[kind |-> "faceSize", mip |-> mip, face |-> 0, bytes |-> U32(faceSize)]>>
        \o ktxFacesChunks(img, mip, 0)
        \o (IF mipRounding # 0
            THEN <<[kind |-> "mipRounding", mip |-> mip, face |-> 0,
                    bytes |-> zeroBytes(mipRounding)]>>
            ELSE <<>>)

RECURSIVE ktxDataChunks(_, _)
\* for mip < m_numMips, from `mip` on.
ktxDataChunks(img, mip) ==
    IF mip >= img.m_numMips THEN <<>>
    ELSE ktxMipChunks(img, mip) \o ktxDataChunks(img, mip + 1)

RECURSIVE chunkBytes(_)
\* The bytes a sequence of writes puts in the file.
chunkBytes(chunks) ==
    IF chunks = <<>> THEN <<>>
    ELSE chunks[1].bytes \o chunkBytes(Tail(chunks))

\* imageSaveKtx: magic, header, data.
imageSaveKtx(img) ==
    KTX_MAGIC \o ktxHeaderBytes(ktxHeaderFromImage(img))
    \o chunkBytes(ktxDataChunks(img, 0))

\* Sizes of the offset tables on the stack (image.h).
MAX_MIP_NUM == 16
CUBE_FACE_NUM == 6

\* The header fields imageLoadKtx reads, by their position in the file.
ktxHeaderOf(f) ==
    [m_endianness |-> readU32(f, 12), m_glType |-> readU32(f, 16),
     m_glTypeSize |-> readU32(f, 20), m_glFormat |-> readU32(f, 24),
     m_glInternalFormat |-> readU32(f, 28),
     m_glBaseInternalFormat |-> readU32(f, 32),
     m_pixelWidth |-> readU32(f, 36), m_pixelHeight |-> readU32(f, 40),
     m_pixelDepth |-> readU32(f, 44), m_numArrayElements |-> readU32(f, 48),
     m_numFaces |-> readU32(f, 52), m_numMips |-> readU32(f, 56),
     m_bytesKeyValue |-> readU32(f, 60)]

\* fread(.., 1, n, fp) at file position pos copies the bytes the file still
\* has, at most n.  Positions only grow here, so once a read comes up
\* short every later one gets nothing, and a position may be reckoned as
\* if every read had been whole.
freadCount(f, pos, n) == Min2(n, Max2(0, Len(f) - pos))

\* The reads into the buffer for the faces of one mip, in order, the first
\* face starting at file position pos: where in the buffer, from where in
\* the file, how many bytes.  A face is read at once when its rows need no
\* rounding, else row by row over ktxHeader.m_pixelHeight rows, each
\* followed by a jump over the row rounding; a jump over the face rounding
\* follows each face.
ktxFaceStride(shape, mip, faceSize) ==
    LET pitch == mipDim(shape.m_width, mip) * bytesPerPixelOf(shape.m_format)
        pitchRounding == ktxRounding(pitch)
    IN  (IF pitchRounding = 0 THEN faceSize
         ELSE shape.m_height * (pitch + pitchRounding))
        + ktxRounding(faceSize)

ktxMipReads(f, shape, mip, faceSize, pos) ==
    LET pitch == mipDim(shape.m_width, mip) * bytesPerPixelOf(shape.m_format)
        pitchRounding == ktxRounding(pitch)
        stride == ktxFaceStride(shape, mip, faceSize)
        whole == [k \in 1..shape.m_numFaces |->
                    LET from == pos + (k - 1) * stride
                    IN  [at |-> imageGetMipOffsets(shape, k - 1, mip),
                         from |-> from,
                         n |-> freadCount(f, from, faceSize)]]
        rows == [k \in 1..(shape.m_numFaces * shape.m_height) |->
                    LET face == (k - 1) \div shape.m_height
                        yy == (k - 1) % shape.m_height
                        from == pos + face * stride + yy * (pitch + pitchRounding)
                    IN  [at |-> imageGetMipOffsets(shape, face, mip) + yy * pitch,
                         from |-> from,
                         n |-> freadCount(f, from, pitch)]]
    IN  IF pitchRounding = 0 THEN whole ELSE rows

RECURSIVE ktxReadMips(_, _, _, _, _)
\* for mip < ktxHeader.m_numMips, from `mip` on at file position pos: the
\* face size, the faces, the jump over the mip rounding.  A face size the
\* file no longer holds is left unset, `junk`.
ktxReadMips(f, shape, mip, pos, junk) ==
    IF mip >= shape.m_numMips THEN [log |-> <<>>, ub |-> FALSE]
    ELSE LET have == pos + 4 <= Len(f)
             faceSize == IF have THEN readU32(f, pos) ELSE junk
             mipSize == faceSize * shape.m_numFaces
             reads == ktxMipReads(f, shape, mip, faceSize, pos + 4)
             next == pos + 4 + shape.m_numFaces * ktxFaceStride(shape, mip, faceSize)
                         + ktxRounding(mipSize)
             rest == ktxReadMips(f, shape, mip + 1, next, junk)
         IN  [log |-> reads \o rest.log, ub |-> ~have \/ rest.ub]

\* The buffer after the reads of `log`: each byte is what the last read
\* that covers it put there, `junk` (as malloc left it) if none does; a
\* byte read past the end of the buffer is lost.
bufferAfter(f, size, log, junk) ==
    [i \in 0..(size - 1) |->
        LET hits == {k \in 1..Len(log) :
                        i >= log[k].at /\ i < log[k].at + log[k].n}
        IN  IF hits = {} THEN junk
            ELSE LET k == CHOOSE k \in hits : \A other \in hits : other <= k
                 IN  f[log[k].from + (i - log[k].at) + 1]]

\* Some read of `log` put bytes past the end of a buffer of `size` bytes.
readsOutOfBounds(log, size) ==
    \E k \in 1..Len(log) : log[k].n > 0 /\ log[k].at + log[k].n > size

\* imageLoadKtx on a file that holds at least the magic and the header.
\* The offset table on the stack has room for MAX_MIP_NUM mips of
\* CUBE_FACE_NUM faces.
imageLoadKtx(f, junk) ==
    LET h == ktxHeaderOf(f)
        numMips == IF h.m_numMips = 0 THEN 1 ELSE h.m_numMips
        format == translateKtxFormat(h.m_glInternalFormat)
        shape == ImageInfo(h.m_pixelWidth, h.m_pixelHeight, format, numMips,
                           h.m_numFaces, 0)
        dataSize == expectedDataSize(shape)
        end == ktxReadMips(f, shape, 0,
                           KTX_MAGIC_LEN + KTX_HEADER_SIZE + h.m_bytesKeyValue,
                           junk)
    IN  IF SubSeq(f, 1, KTX_MAGIC_LEN) # KTX_MAGIC \/ format = "Unknown"
        THEN [ok |-> FALSE, image |-> NoImage, ub |-> FALSE]
        ELSE [ok |-> TRUE,
              image |-> Image(h.m_pixelWidth, h.m_pixelHeight, format,
                              numMips % 256, h.m_numFaces % 256, dataSize,
                              bufferAfter(f, dataSize, end.log, junk)),
              ub |-> \/ end.ub
                     \/ readsOutOfBounds(end.log, dataSize)
                     \/ numMips > MAX_MIP_NUM
                     \/ h.m_numFaces > CUBE_FACE_NUM]

\* imageSave(_image, _fileName, ImageFileType::KTX) succeeds.
canSaveKtx(img) == contains(img.m_format, s_ktxValidFormats)

KtxImages ==
    {TestImage(w, h, f, m, n) :
        w \in 1..MaxDim, h \in 1..MaxDim, f \in FormatSet,
        m \in 1..MaxMips, n \in {1, 6}}
    \cup {TestImage(3, 1, "RGB8", 1, 1)}

InitKtx ==
    /\ image \in KtxImages
    /\ src = image
    /\ file = NoFile
    /\ hist = <<>>
    /\ out = <<>>
    /\ ub = FALSE

\* imageSave to a KTX file: refused for a format KTX does not hold.  `out`
\* keeps what was written after the header, write by write.
SaveKtx ==
    /\ hist = <<>>
    /\ file' = IF canSaveKtx(image) THEN imageSaveKtx(image) ELSE file
    /\ out' = IF canSaveKtx(image) THEN ktxDataChunks(image, 0) ELSE out
    /\ hist' = Append(hist, [op |-> "imageSaveKtx", ok |-> canSaveKtx(image)])
    /\ UNCHANGED <<image, src, ub>>

\* imageLoad of the KTX file written.
LoadKtx ==
    /\ Len(hist) = 1 /\ hist[1].ok
    /\ \E junk \in {0, 255} :
         LET r == imageLoadKtx(file, junk)
         IN  /\ image' = IF r.ok THEN r.image ELSE image
             /\ ub' = (ub \/ r.ub)
             /\ hist' = Append(hist, [op |-> "imageLoadKtx", ok |-> r.ok])
    /\ UNCHANGED <<src, file, out>>

NextKtx == SaveKtx \/ LoadKtx

SpecKtx == InitKtx /\ [][NextKtx]_vars

\* C9: an image in a format KTX holds, saved as KTX and loaded back, has
\* the width, height, format, mip count, face count, size and bytes it
\* had, also when the row pitch of some mip is no multiple of 4.
C9_KtxRoundTrip ==
    ( /\ Len(hist) = 2
      /\ hist[1].op = "imageSaveKtx"
      /\ hist[2].op = "imageLoadKtx" )
    => (hist[2].ok /\ image = src)

RECURSIVE chunksLen(_, _)
\* The number of bytes the first n writes put out.
chunksLen(chunks, n) ==
    IF n = 0 THEN 0 ELSE chunksLen(chunks, n - 1) + Len(chunks[n].bytes)

\* Where write k of `chunks` starts within its mip's payload (the bytes
\* that follow the mip's face size).
payloadOffset(chunks, k) ==
    LET sizeAt == CHOOSE j \in 1..k :
                    /\ chunks[j].kind = "faceSize"
                    /\ chunks[j].mip = chunks[k].mip
    IN  chunksLen(chunks, k - 1) - chunksLen(chunks, sizeAt)

\* C10: in the KTX output, within each mip every row and every face starts
\* at a multiple of 4 from the start of the mip's payload, the payload ends
\* at a multiple of 4, and every padding byte is zero.
C10_KtxAlignment ==
    (hist # <<>> /\ hist[1].op = "imageSaveKtx" /\ hist[1].ok) =>
        \A k \in 1..Len(out) :
            /\ out[k].kind \in {"row", "face"} =>
                    payloadOffset(out, k) % 4 = 0
            /\ (k = Len(out) \/ out[k + 1].kind = "faceSize") =>
                    (payloadOffset(out, k) + Len(out[k].bytes)) % 4 = 0
            /\ out[k].kind \in {"rowRounding", "faceRounding", "mipRounding"} =>
                    \A j \in 1..Len(out[k].bytes) : out[k].bytes[j] = 0

----------------------------------------------------------------------------
(* The image structure across the public operations *)

\* Here `image` holds the fields of struct Image without the bytes, `out`
\* the face list a split has produced, `hist` the last operation, and `ub`
\* whether some operation so far may have stepped outside a buffer.

MaxMetaDim == 6
MaxMetaBytes == 4608
MaxHeaderDim == 2

TGA_IT_RGB == 2
TGA_DESC_HORIZONTAL == 16
TGA_DESC_VERTICAL == 32

NoInfo == infoOf(NoImage)

\* What an operation gives: its return value (TRUE for a void function),
\* the image structure it fills, and whether it may have stepped outside a
\* buffer on the way.
Outcome(ok, img, undefined) == [ok |-> ok, image |-> img, ub |-> undefined]

\* An operation that walks `img` by imageGetMipOffsets, with tables of
\* CUBE_FACE_NUM x MAX_MIP_NUM entries, leaves the tables or the buffer.
layoutOverrun(img) ==
    \/ img.m_dataSize < expectedDataSize(img)
    \/ img.m_numMips > MAX_MIP_NUM
    \/ img.m_numFaces > CUBE_FACE_NUM

\* imageTransform(_image, op | face) touches bytes outside the buffer.
swapsOutOfBounds(img, op, imageFace) ==
    \/ img.m_numMips > MAX_MIP_NUM
    \/ img.m_numFaces > CUBE_FACE_NUM
    \/ \E mip \in 0..(img.m_numMips - 1) :
         LET swaps == opSwaps(img, op, imageFace, mip)
         IN  \E k \in 1..Len(swaps) :
                \/ swaps[k].aa + swaps[k].size > img.m_dataSize
                \/ swaps[k].bb + swaps[k].size > img.m_dataSize

\* The image structure imageLoadTga fills from a header whose payload is
\* not run-length encoded, and the flips it then applies.
tgaLoadInfo(h) ==
    LET format == IF 24 = h.m_bitsPerPixel THEN "BGR8"
                  ELSE IF 32 = h.m_bitsPerPixel THEN "BGRA8"
                  ELSE "Unknown"
        numBytesPerPixel == h.m_bitsPerPixel \div 8
        numPixels == h.m_width * h.m_height
        dataSize == numPixels * numBytesPerPixel
        result == ImageInfo(h.m_width, h.m_height, format, 1, 1, dataSize)
        flipY == BitAnd(h.m_imageDescriptor, TGA_DESC_HORIZONTAL) # 0
        flipX == BitAnd(h.m_imageDescriptor, TGA_DESC_VERTICAL) = 0
    IN  IF 0 = BitAnd(TGA_IT_RGB, h.m_imageType) \/ format = "Unknown"
        THEN Outcome(FALSE, NoInfo, FALSE)
        ELSE Outcome(TRUE, result,
                     \/ flipX /\ swapsOutOfBounds(result, "FLIP_X", 0)
                     \/ flipY /\ swapsOutOfBounds(result, "FLIP_Y", 0))

\* The image structure imageLoadHdr fills for a resolution line
\* "-Y height +X width" followed by a payload that is not run-length
\* encoded: the first pixel is stored, then the dataSize - 4 bytes left.
hdrLoadInfo(width, height) ==
    LET dataSize == width * height * 4
    IN  Outcome(TRUE, ImageInfo(width, height, "RGBE", 1, 1, dataSize),
                dataSize < 4)

\* imageToRgba32f(_dst, _src)
toRgba32fInfo(img) ==
    ImageInfo(img.m_width, img.m_height, "RGBA32F", img.m_numMips,
              img.m_numFaces,
              imageGetNumPixels(img) * bytesPerPixelOf("RGBA32F"))

\* imageFromRgba32f(_dst, _dstFormat, _src)
fromRgba32fInfo(img, dstFormat) ==
    ImageInfo(img.m_width, img.m_height, dstFormat, img.m_numMips,
              img.m_numFaces,
              imageGetNumPixels(img) * bytesPerPixelOf(dstFormat))

\* Both conversions read imageGetNumPixels(_src) pixels from _src.m_data.
convertReadsOutside(img) ==
    imageGetNumPixels(img) * bytesPerPixelOf(img.m_format) > img.m_dataSize

\* imageConvert(_dst, _dstFormat, _src): through RGBA32F, of which a source
\* already in RGBA32F is a reference and a destination in RGBA32F a copy.
imageConvertInfo(img, dstFormat) ==
    LET isRef == "RGBA32F" = img.m_format
        imageRgba32f == IF isRef THEN img ELSE toRgba32fInfo(img)
    IN  IF "RGBA32F" = dstFormat
        THEN Outcome(TRUE, imageRgba32f, ~isRef /\ convertReadsOutside(img))
        ELSE Outcome(TRUE, fromRgba32fInfo(imageRgba32f, dstFormat),
                     \/ ~isRef /\ convertReadsOutside(img)
                     \/ convertReadsOutside(imageRgba32f))

\* imageConvert(_image, _format), in place.
imageConvertInPlaceInfo(img, format) ==
    IF format # img.m_format THEN imageConvertInfo(img, format)
    ELSE Outcome(TRUE, img, FALSE)

\* imageRefOrConvert(_dst, TextureFormat::RGBA32F, _src)
imageRefOrConvertInfo(img) ==
    IF "RGBA32F" = img.m_format THEN Outcome(TRUE, img, FALSE)
    ELSE imageConvertInfo(img, "RGBA32F")

\* "Convert result to source format": a move when the source is RGBA32F,
\* else imageConvert(_dst, _src.m_format, result).
backToSourceFormat(result, srcFormat) ==
    IF "RGBA32F" = srcFormat THEN Outcome(TRUE, result, FALSE)
    ELSE imageConvertInfo(result, srcFormat)

\* imageResize(_dst, _width, _height, _src): the base level of each face
\* resampled in RGBA32F, one mip level in the result.
imageResizeInfo(img, width, height) ==
    LET conv == imageRefOrConvertInfo(img)
        imageRgba32f == conv.image
        bytesPerPixel == 4 * 4
        dstPitch == width * bytesPerPixel
        dstFaceDataSize == dstPitch * height
        dstDataSize == dstFaceDataSize * imageRgba32f.m_numFaces
        result == ImageInfo(width, height, "RGBA32F", 1,
                            imageRgba32f.m_numFaces, dstDataSize)
        back == backToSourceFormat(result, img.m_format)
    IN  Outcome(TRUE, back.image,
                \/ conv.ub
                \/ width > 0 /\ height > 0 /\ layoutOverrun(imageRgba32f)
                \/ back.ub)

RECURSIVE mipChainCount(_, _, _)
\* for (mipCount = 0; (mipCount < maxMipNum) && (width != 1) && (height != 1);
\* ++mipCount), width and height being those of the level before, 0 at first.
mipChainCount(img, maxMipNum, mipCount) ==
    LET width  == IF mipCount = 0 THEN 0 ELSE mipDim(img.m_width, mipCount - 1)
        height == IF mipCount = 0 THEN 0 ELSE mipDim(img.m_height, mipCount - 1)
    IN  IF mipCount < maxMipNum /\ width # 1 /\ height # 1
        THEN mipChainCount(img, maxMipNum, mipCount + 1)
        ELSE mipCount

\* imageGenerateMipMapChain(_image, _numMips)
imageGenerateMipMapChainInfo(img, numMips) ==
    LET conv == imageRefOrConvertInfo(img)
        imageRgba32f == conv.image
        maxMipNum == Min2(numMips, MAX_MIP_NUM)
        mipCount == IF imageRgba32f.m_numFaces = 0 THEN 0
                    ELSE mipChainCount(imageRgba32f, maxMipNum, 0)
        dstDataSize == imageRgba32f.m_numFaces
                          * sumMipSizes(imageRgba32f, mipCount)
        result == ImageInfo(imageRgba32f.m_width, imageRgba32f.m_height,
                            "RGBA32F", mipCount, imageRgba32f.m_numFaces,
                            dstDataSize)
        back == backToSourceFormat(result, img.m_format)
    IN  Outcome(TRUE, back.image,
                conv.ub \/ layoutOverrun(imageRgba32f) \/ back.ub)

\* imageIsLatLong: |float(width)/float(height) - 2| < 0.00001, which for
\* sizes below 100000 is width = 2 * height; a zero height gives an
\* infinity or a NaN, and FALSE.
imageIsLatLong(img) == img.m_height # 0 /\ img.m_width = 2 * img.m_height

\* imageCubemapFromLatLong(_dst, _src, _useBilinearInterpolation).  Where
\* the samples fall is decided by floating-point code; whether one falls
\* outside the source is left open, `sampleOutside`.
imageCubemapFromLatLongInfo(img, sampleOutside) ==
    LET conv == imageRefOrConvertInfo(img)
        imageRgba32f == conv.image
        bytesPerPixel == 4 * 4
        dstFaceSize == (imageRgba32f.m_height + 1) \div 2
        dstPitch == dstFaceSize * bytesPerPixel
        dstFaceDataSize == dstPitch * dstFaceSize
        dstDataSize == dstFaceDataSize * CUBE_FACE_NUM
        result == ImageInfo(dstFaceSize, dstFaceSize, "RGBA32F", 1, 6,
                            dstDataSize)
        back == backToSourceFormat(result, img.m_format)
    IN  IF ~imageIsLatLong(img) THEN Outcome(FALSE, NoInfo, FALSE)
        ELSE Outcome(TRUE, back.image, conv.ub \/ sampleOutside \/ back.ub)

\* imageLatLongFromCubemap(_dst, _src, _useBilinearInterpolation)
imageLatLongFromCubemapInfo(img, sampleOutside) ==
    LET conv == imageRefOrConvertInfo(img)
        imageRgba32f == conv.image
        dstHeight == imageRgba32f.m_height * 2
        dstWidth == imageRgba32f.m_height * 4
        shape == ImageInfo(dstWidth, dstHeight, "RGBA32F",
                           imageRgba32f.m_numMips, 1, 0)
        dstDataSize == sumMipSizes(shape, imageRgba32f.m_numMips)
        result == [shape EXCEPT !.m_dataSize = dstDataSize]
        back == backToSourceFormat(result, img.m_format)
    IN  IF ~imageIsCubemap(img) THEN Outcome(FALSE, NoInfo, FALSE)
        ELSE Outcome(TRUE, back.image,
                     \/ conv.ub
                     \/ layoutOverrun(imageRgba32f)
                     \/ sampleOutside
                     \/ back.ub)

\* imageCubemapFromCross(_dst, _src).  isVertical and isHorizontal are both
\* (aspect - 3.0f/4.0f) < 0.0001f, for these sizes 4 * width <= 3 * height;
\* a zero height gives an infinity or a NaN, and FALSE.  Face 5 is the
\* last one read.
imageCubemapFromCrossInfo(img) ==
    LET isVertical == img.m_height # 0 /\ 4 * img.m_width <= 3 * img.m_height
        srcBytesPerPixel == bytesPerPixelOf(img.m_format)
        imagePitch == img.m_width * srcBytesPerPixel
        faceSize == (img.m_width + 2) \div 3
        facePitch == faceSize * srcBytesPerPixel
        faceDataSize == facePitch * faceSize
        rowDataSize == imagePitch * faceSize
        dstDataSize == faceDataSize * CUBE_FACE_NUM
        lastRead == (3 * rowDataSize + facePitch)
                       + imagePitch * (faceSize - 1) + facePitch
        result == ImageInfo(faceSize, faceSize, img.m_format, 1, 6,
                            dstDataSize)
    IN  IF ~isVertical THEN Outcome(FALSE, NoInfo, FALSE)
        ELSE Outcome(TRUE, result,
                     \/ faceSize > 0 /\ lastRead > img.m_dataSize
                     \/ swapsOutOfBounds(result, "FLIP_X", 5)
                     \/ swapsOutOfBounds(result, "FLIP_Y", 5))

\* imageCrossFromCubemap(_dst, _src, _vertical)
imageCrossFromCubemapInfo(img, vertical) ==
    LET dstWidth == (IF vertical THEN 3 ELSE 4) * img.m_width
        dstHeight == (IF vertical THEN 4 ELSE 3) * img.m_width
        shape == ImageInfo(dstWidth, dstHeight, img.m_format, img.m_numMips,
                           1, 0)
        dstDataSize == sumMipSizes(shape, img.m_numMips)
    IN  IF ~imageIsCubemap(img) THEN Outcome(FALSE, NoInfo, FALSE)
        ELSE Outcome(TRUE, [shape EXCEPT !.m_dataSize = dstDataSize],
                     layoutOverrun(img))

\* imageHStripFromCubemap(_dst, _src)
imageHStripFromCubemapInfo(img) ==
    LET dst == hstripInfo(img)
    IN  IF ~imageIsCubemap(img) THEN Outcome(FALSE, NoInfo, FALSE)
        ELSE Outcome(TRUE, dst,
                     \/ img.m_numMips > MAX_MIP_NUM
                     \/ copiesOutOfBounds(hstripCopies(img), dst.m_dataSize,
                                          img.m_dataSize))

\* imageCubemapFromHStrip(_dst, _src)
imageCubemapFromHStripInfo(img) ==
    LET dst == cubemapFromHStripInfo(img)
    IN  IF ~imageIsHStrip(img) THEN Outcome(FALSE, NoInfo, FALSE)
        ELSE Outcome(TRUE, dst,
                     \/ img.m_numMips > MAX_MIP_NUM
                     \/ copiesOutOfBounds(cubemapFromHStripCopies(img),
                                          dst.m_dataSize, img.m_dataSize))

\* imageFaceListFromCubemap(_faceList, _cubemap): six images alike.
imageFaceListFromCubemapInfo(cubemap) ==
    LET shape == ImageInfo(cubemap.m_width, cubemap.m_width, cubemap.m_format,
                           cubemap.m_numMips, 1, 0)
        dstDataSize == sumMipSizes(shape, cubemap.m_numMips)
        result == ImageInfo(cubemap.m_width, cubemap.m_height,
                            cubemap.m_format, cubemap.m_numMips, 1,
                            dstDataSize)
    IN  IF ~imageIsCubemap(cubemap) THEN Outcome(FALSE, <<>>, FALSE)
        ELSE Outcome(TRUE, [face \in 1..6 |-> result], layoutOverrun(cubemap))

\* imageValidCubemapFaceList(_faceList)
imageValidCubemapFaceList(faceList) ==
    \A face \in 1..6 :
        /\ faceList[face].m_width = faceList[face].m_height
        /\ faceList[1].m_width = faceList[face].m_width
        /\ faceList[1].m_numMips = faceList[face].m_numMips

\* imageCubemapFromFaceList(_cubemap, _faceList): the mip levels of each
\* face, laid out as in _faceList[0], copied one after the other.
imageCubemapFromFaceListInfo(faceList) ==
    LET first == faceList[1]
        dstDataSize == first.m_dataSize * 6
        faceBytes == sumMipSizes([first EXCEPT !.m_height = first.m_width],
                                 first.m_numMips)
        result == ImageInfo(first.m_width, first.m_height, first.m_format,
                            first.m_numMips, 6, dstDataSize)
    IN  IF ~imageValidCubemapFaceList(faceList)
        THEN Outcome(FALSE, NoInfo, FALSE)
        ELSE Outcome(TRUE, result,
                     \/ first.m_numMips > MAX_MIP_NUM
                     \/ first.m_numFaces > CUBE_FACE_NUM
                     \/ \E face \in 1..6 :
                           faceList[face].m_dataSize < faceBytes
                     \/ 6 * faceBytes > dstDataSize)

\* Files with chosen header fields: what imageSaveDds and imageSaveKtx
\* write for `base`, but for the mip and face counts of the header.
HeaderCounts == {0, 1, 2, 17}
HeaderFaces == {1, 2, 6}

\* Black images, so that whatever a loader takes for a size is small.
HeaderImages(format) ==
    {LET info == infoOf(TestImage(w, w, format, 1, n))
     IN  withData(info, [i \in 0..(info.m_dataSize - 1) |-> 0]) :
        w \in 1..2, n \in {1, 6}}

ddsFileWithCounts(base, mipMapCount) ==
    LET hd == ddsHeaderFromImage(base)
    IN  ddsFile([hd.hdr EXCEPT !.m_mipMapCount = mipMapCount], hd.dxt10,
                DDS_DX10 = hd.hdr.m_pixelFormat.m_fourcc,
                bufferBytes(base.m_data, base.m_dataSize))

ktxFileWithCounts(base, numMips, numFaces) ==
    KTX_MAGIC
    \o ktxHeaderBytes([ktxHeaderFromImage(base) EXCEPT
                          !.m_numMips = numMips, !.m_numFaces = numFaces])
    \o chunkBytes(ktxDataChunks(base, 0))

TgaHeaders ==
    [m_imageType : {1, 2, 3}, m_width : 0..MaxHeaderDim,
     m_height : 0..MaxHeaderDim, m_bitsPerPixel : {16, 24},
     m_imageDescriptor : {0, TGA_DESC_VERTICAL}]

OpFormats == {"BGR8", "RGBA32F"}

Loads == {"imageLoadTga", "imageLoadHdr", "imageLoadDds", "imageLoadKtx"}

InitOps ==
    /\ image = NoInfo
    /\ src = NoInfo
    /\ file = NoFile
    /\ hist = <<>>
    /\ out = <<>>
    /\ ub = FALSE

\* An operation with outcome r has run on the image, in place: the image
\* is replaced when the operation succeeds.  A caller holding a face list
\* merges or unloads it before going on.
ranInPlace(name, r) ==
    /\ out = <<>> \/ name = "imageCubemapFromFaceList"
    /\ r.image.m_width <= MaxMetaDim
    /\ r.image.m_height <= MaxMetaDim
    /\ r.image.m_dataSize <= MaxMetaBytes
    /\ image' = IF r.ok THEN r.image ELSE image
    /\ ub' = (ub \/ r.ub)
    /\ hist' = <<[op |-> name, ok |-> r.ok]>>

OpLoadTga ==
    /\ image = NoInfo
    /\ \E h \in TgaHeaders : ranInPlace("imageLoadTga", tgaLoadInfo(h))
    /\ UNCHANGED <<src, file, out>>

OpLoadHdr ==
    /\ image = NoInfo
    /\ \E width \in 0..MaxHeaderDim, height \in 0..MaxHeaderDim :
         ranInPlace("imageLoadHdr", hdrLoadInfo(width, height))
    /\ UNCHANGED <<src, file, out>>

OpLoadDds ==
    /\ image = NoInfo
    /\ \E base \in HeaderImages("RGBA32F"), mipMapCount \in HeaderCounts,
          junk \in {0, 255} :
         LET r == imageLoadDds(ddsFileWithCounts(base, mipMapCount), junk)
         IN  /\ ~r.hang
             /\ ranInPlace("imageLoadDds",
                           Outcome(r.ok, infoOf(r.image), r.ub))
    /\ UNCHANGED <<src, file, out>>

OpLoadKtx ==
    /\ image = NoInfo
    /\ \E base \in HeaderImages("RGBA32F"), numMips \in HeaderCounts,
          numFaces \in HeaderFaces, junk \in {0, 255} :
         LET r == imageLoadKtx(ktxFileWithCounts(base, numMips, numFaces),
                               junk)
         IN  ranInPlace("imageLoadKtx", Outcome(r.ok, infoOf(r.image), r.ub))
    /\ UNCHANGED <<src, file, out>>

OpConvert ==
    /\ image # NoInfo
    /\ \E format \in OpFormats :
         ranInPlace("imageConvert", imageConvertInPlaceInfo(image, format))
    /\ UNCHANGED <<src, file, out>>

OpResize ==
    /\ image # NoInfo
    /\ \E width \in 0..MaxMetaDim, height \in 0..MaxMetaDim :
         ranInPlace("imageResize", imageResizeInfo(image, width, height))
    /\ UNCHANGED <<src, file, out>>

OpGenerateMipMapChain ==
    /\ image # NoInfo
    /\ \E numMips \in {0, 1, 2, 255} :
         ranInPlace("imageGenerateMipMapChain",
                    imageGenerateMipMapChainInfo(image, numMips))
    /\ UNCHANGED <<src, file, out>>

OpTransform ==
    /\ image # NoInfo
    /\ image.m_numFaces > 0
    /\ \E op \in ImageOps, imageFace \in {0, image.m_numFaces - 1} :
         ranInPlace("imageTransform",
                    Outcome(TRUE, image,
                            swapsOutOfBounds(image, op, imageFace)))
    /\ UNCHANGED <<src, file, out>>

OpCubemapFromCross ==
    /\ image # NoInfo
    /\ ranInPlace("imageCubemapFromCross", imageCubemapFromCrossInfo(image))
    /\ UNCHANGED <<src, file, out>>

OpCrossFromCubemap ==
    /\ image # NoInfo
    /\ \E vertical \in BOOLEAN :
         ranInPlace("imageCrossFromCubemap",
                    imageCrossFromCubemapInfo(image, vertical))
    /\ UNCHANGED <<src, file, out>>

OpCubemapFromLatLong ==
    /\ image # NoInfo
    /\ \E sampleOutside \in BOOLEAN :
         ranInPlace("imageCubemapFromLatLong",
                    imageCubemapFromLatLongInfo(image, sampleOutside))
    /\ UNCHANGED <<src, file, out>>

OpLatLongFromCubemap ==
    /\ image # NoInfo
    /\ \E sampleOutside \in BOOLEAN :
         ranInPlace("imageLatLongFromCubemap",
                    imageLatLongFromCubemapInfo(image, sampleOutside))
    /\ UNCHANGED <<src, file, out>>

OpHStripFromCubemap ==
    /\ image # NoInfo
    /\ ranInPlace("imageHStripFromCubemap", imageHStripFromCubemapInfo(image))
    /\ UNCHANGED <<src, file, out>>

OpCubemapFromHStrip ==
    /\ image # NoInfo
    /\ ranInPlace("imageCubemapFromHStrip", imageCubemapFromHStripInfo(image))
    /\ UNCHANGED <<src, file, out>>

\* The split leaves the cube map as it is and fills the face list.
OpFaceListFromCubemap ==
    /\ image # NoInfo
    /\ out = <<>>
    /\ LET r == imageFaceListFromCubemapInfo(image)
       IN  /\ out' = IF r.ok THEN r.image ELSE out
           /\ ub' = (ub \/ r.ub)
           /\ hist' = <<[op |-> "imageFaceListFromCubemap", ok |-> r.ok]>>
    /\ UNCHANGED <<image, src, file>>

\* The merge takes any six images: the list of the last split, or the
\* image itself six times.
OpCubemapFromFaceList ==
    /\ image # NoInfo
    /\ \E faceList \in {[face \in 1..6 |-> image]}
                          \cup (IF out = <<>> THEN {} ELSE {out}) :
         ranInPlace("imageCubemapFromFaceList",
                    imageCubemapFromFaceListInfo(faceList))
    /\ UNCHANGED <<src, file, out>>

\* imageUnload of the six images of the face list.
OpUnloadFaceList ==
    /\ out # <<>>
    /\ out' = <<>>
    /\ hist' = <<[op |-> "imageUnload", ok |-> TRUE]>>
    /\ UNCHANGED <<image, src, file, ub>>

NextOps ==
    \/ OpLoadTga \/ OpLoadHdr \/ OpLoadDds \/ OpLoadKtx
    \/ OpConvert \/ OpResize \/ OpGenerateMipMapChain \/ OpTransform
    \/ OpCubemapFromCross \/ OpCrossFromCubemap
    \/ OpCubemapFromLatLong \/ OpLatLongFromCubemap
    \/ OpHStripFromCubemap \/ OpCubemapFromHStrip
    \/ OpFaceListFromCubemap \/ OpCubemapFromFaceList \/ OpUnloadFaceList

SpecOps == InitOps /\ [][NextOps]_vars

\* C2: after any sequence of the public operations that stayed inside its
\* buffers, the image's m_dataSize is numFaces times the sum over its mip
\* levels of max(1, width>>m) * max(1, height>>m) * bytesPerPixel(format).
C2_DataSizeMatchesLayout ==
    (hist # <<>> /\ image # NoInfo /\ ~ub)
        => image.m_dataSize = expectedDataSize(image)

\* C3: an image a successful load has returned has 1 or 6 faces and between
\* 1 and 16 mip levels, whatever counts the file's header holds.
C3_LoadedCountsInRange ==
    (hist # <<>> /\ hist[1].op \in Loads /\ hist[1].ok /\ ~ub)
        => /\ image.m_numFaces \in {1, 6}
           /\ image.m_numMips \in 1..16

----------------------------------------------------------------------------
(* Pixel conversion through RGBA32F: floats, RGBE, and imageConvert. *)

\* Largest width of the images drawn as inputs of the conversions.
MaxConvertWidth == 2

\* A float as the fields of its 32 bits: sign, biased exponent, fraction.
Float(s, e, m) == [s |-> s, e |-> e, m |-> m]

\* The four bytes of a float in memory, least significant first.
floatToBytes(x) ==
    <<x.m % 256, (x.m \div 256) % 256,
      ((x.m \div 65536) % 128) + 128 * (x.e % 2),
      (x.e \div 2) + 128 * x.s>>

\* The float held in four bytes of memory.
floatOfBytes(b) ==
    Float(b[4] \div 128, 2 * (b[4] % 128) + (b[3] \div 128),
          b[1] + 256 * b[2] + 65536 * (b[3] % 128))

\* 0.0f and 1.0f
FloatZero == Float(0, 0, 0)
FloatOne == Float(0, 127, 0)

RECURSIVE floorLog2(_)
\* The position of the highest set bit of n >= 1.
floorLog2(n) == IF n <= 1 THEN 0 ELSE 1 + floorLog2(n \div 2)

\* A finite float is significand(x) * 2^exponentOf(x), up to its sign.
significand(x) == IF x.e = 0 THEN x.m ELSE x.m + 8388608
exponentOf(x) == Max2(x.e, 1) - 150

\* n * 2^k for any integer k, rounded towards zero.
shift(n, k) ==
    IF k >= 0 THEN n * Pow2(k)
    ELSE IF k < -30 THEN 0 ELSE n \div Pow2(-k)

\* The float c * 2^k for an integer 0 <= c < 65536: what float(c) * 2^k
\* and ldexp(1.0f, k) give, the product being exact.
dyadic(c, k) ==
    IF c = 0 THEN FloatZero
    ELSE LET p == floorLog2(c)
         IN  IF p + k > 127 THEN Float(0, 255, 0)
             ELSE IF p + k >= -126
                  THEN Float(0, p + k + 127, (c - Pow2(p)) * Pow2(23 - p))
                  ELSE Float(0, 0, shift(c, k + 149))

\* _a > _b on floats that are not NaN.
floatGreater(a, b) ==
    LET zero(x) == x.e = 0 /\ x.m = 0
        magGreater(x, y) == x.e > y.e \/ (x.e = y.e /\ x.m > y.m)
    IN  IF zero(a) /\ zero(b) THEN FALSE
        ELSE IF a.s # b.s THEN a.s = 0
        ELSE IF a.s = 0 THEN magGreater(a, b) ELSE magGreater(b, a)

\* max(_a, _b) of utils.h on floats.
floatMax(a, b) == IF floatGreater(a, b) THEN a ELSE b

\* rgbeToRgba32f
rgbeToRgba32f(rgbe) ==
    IF rgbe[4] # 0
    THEN <<dyadic(rgbe[1], rgbe[4] - (128 + 8)),
           dyadic(rgbe[2], rgbe[4] - (128 + 8)),
           dyadic(rgbe[3], rgbe[4] - (128 + 8)), FloatOne>>
    ELSE <<FloatZero, FloatZero, FloatZero, FloatOne>>

\* ceilf(log2f(x)) of a positive finite float.
ceilLog2(x) ==
    LET p == floorLog2(significand(x))
    IN  IF significand(x) = Pow2(p) THEN p + exponentOf(x)
        ELSE p + exponentOf(x) + 1

\* The floats the conversions are followed on: those whose significand
\* fits 16 bits, so that the product with 255.0f is exact.
shortFloat(x) == x.m % 256 = 0

\* uint8_t(x * toRgb8) with toRgb8 = 255.0f * 1.0f / ldexp(1.0f, exp),
\* for a float x >= 0 that is at most 2^exp.
rgbeChannel(x, exp) ==
    shift((significand(x) \div 256) * 255, exponentOf(x) + 8 - exp)

\* rgbeFromRgba32f: the four bytes written, and whether a conversion of a
\* float to an integer was out of the integer's range (log2f(0) is -inf,
\* log2f of a negative is NaN, a negative channel does not fit uint8_t).
rgbeFromRgba32f(rgba, junk) ==
    LET maxVal == floatMax(rgba[1], floatMax(rgba[2], rgba[3]))
        positive == maxVal.s = 0 /\ maxVal.e # 255
                        /\ ~(maxVal.e = 0 /\ maxVal.m = 0)
        exp == ceilLog2(maxVal)
        negative(x) == x.s = 1 /\ ~(x.e = 0 /\ x.m = 0)
        fits == /\ positive
                /\ exp + 128 \in 0..255
                /\ \A i \in 1..3 : ~negative(rgba[i])
    IN  IF fits
        THEN [bytes |-> <<rgbeChannel(rgba[1], exp),
                          rgbeChannel(rgba[2], exp),
                          rgbeChannel(rgba[3], exp), exp + 128>>,
              ub |-> FALSE]
        ELSE [bytes |-> <<junk, junk, junk, junk>>, ub |-> TRUE]

\* The formats whose conversions are followed bit by bit.
ConvertFormats == {"RGB32F", "RGBE", "RGBA32F"}

\* toRgba32f: the four floats of one pixel held as bytes px.
toRgba32f(srcFormat, px) ==
    CASE srcFormat = "RGB32F" ->
            <<floatOfBytes(SubSeq(px, 1, 4)), floatOfBytes(SubSeq(px, 5, 8)),
              floatOfBytes(SubSeq(px, 9, 12)), FloatOne>>
      [] srcFormat = "RGBE" -> rgbeToRgba32f(px)
      [] srcFormat = "RGBA32F" ->
            <<floatOfBytes(SubSeq(px, 1, 4)), floatOfBytes(SubSeq(px, 5, 8)),
              floatOfBytes(SubSeq(px, 9, 12)),
              floatOfBytes(SubSeq(px, 13, 16))>>

\* clamp(_val, 0.0f, 1.0f) of utils.h on a float that is not NaN.
clamp01(val) ==
    IF floatGreater(val, FloatOne) THEN FloatOne
    ELSE IF floatGreater(FloatZero, val) THEN FloatZero
    ELSE val

\* The integer a float c >= 0 whose significand fits 8 bits gives when it
\* is multiplied by maxValue, the product being exact, and converted to an
\* unsigned integer: the fraction is dropped.
truncatedProduct(c, maxValue) ==
    shift((significand(c) \div 65536) * maxValue, exponentOf(c) + 16)

\* uint8_t(clamp(v, 0.0f, 1.0f) * 255.0f) and uint16_t(clamp(v, 0.0f, 1.0f)
\* * 65535.0f).
unormFromFloat(v, maxValue) == truncatedProduct(clamp01(v), maxValue)

\* The bytes of the uint8_t stored one after the other for the channels
\* `order` of rgba.
unorm8(rgba, order) ==
    [k \in 1..Len(order) |-> unormFromFloat(rgba[order[k]], 255)]

\* The two bytes of a uint16_t in memory.
U16(n) == <<n % 256, (n \div 256) % 256>>

\* The bytes of the uint16_t stored one after the other for the channels
\* `order` of rgba.
unorm16(rgba, order) ==
    [k \in 1..(2 * Len(order)) |->
        U16(unormFromFloat(rgba[order[(k + 1) \div 2]], 65535))
            [2 - (k % 2)]]

\* bx::halfFromFloat of a float that a half holds exactly (zero, or a
\* normal half whose fraction needs no rounding), as its two bytes.
halfFromFloat(x, junk) ==
    IF x.e = 0 /\ x.m = 0 THEN U16(32768 * x.s)
    ELSE IF x.e - 112 \in 1..30 /\ x.m % 8192 = 0
    THEN U16(32768 * x.s + 1024 * (x.e - 112) + (x.m \div 8192))
    ELSE <<junk, junk>>

\* The bytes of the halves stored one after the other for the channels
\* `order` of rgba.
halves(rgba, order, junk) ==
    [k \in 1..(2 * Len(order)) |->
        halfFromFloat(rgba[order[(k + 1) \div 2]], junk)[2 - (k % 2)]]

\* _bgr8[2], _bgr8[1], _bgr8[0] take red, green, blue.
bgr8FromRgba32f(rgba) == unorm8(rgba, <<3, 2, 1>>)

bgra8FromRgba32f(rgba) == unorm8(rgba, <<3, 2, 1, 4>>)

rgb8FromRgba32f(rgba) == unorm8(rgba, <<1, 2, 3>>)

rgba8FromRgba32f(rgba) == unorm8(rgba, <<1, 2, 3, 4>>)

rgb16FromRgba32f(rgba) == unorm16(rgba, <<1, 2, 3>>)

rgba16FromRgba32f(rgba) == unorm16(rgba, <<1, 2, 3, 4>>)

\* rgb16fFromRgba32f stores _rgb16f[0] to _rgb16f[3]: four halves.
rgb16fFromRgba32f(rgba, junk) == halves(rgba, <<1, 2, 3, 4>>, junk)

rgba16fFromRgba32f(rgba, junk) == halves(rgba, <<1, 2, 3, 4>>, junk)

\* fromRgba32f: the bytes one pixel's converter writes at the pixel's
\* place in the destination.
fromRgba32f(format, rgba, junk) ==
    CASE format = "RGB32F" ->
            [bytes |-> floatToBytes(rgba[1]) \o floatToBytes(rgba[2])
                          \o floatToBytes(rgba[3]),
             ub |-> FALSE]
      [] format = "RGBE" -> rgbeFromRgba32f(rgba, junk)
      [] format = "RGBA32F" ->
            [bytes |-> floatToBytes(rgba[1]) \o floatToBytes(rgba[2])
                          \o floatToBytes(rgba[3]) \o floatToBytes(rgba[4]),
             ub |-> FALSE]
      [] format = "BGR8" -> [bytes |-> bgr8FromRgba32f(rgba), ub |-> FALSE]
      [] format = "RGB8" -> [bytes |-> rgb8FromRgba32f(rgba), ub |-> FALSE]
      [] format = "RGB16" -> [bytes |-> rgb16FromRgba32f(rgba), ub |-> FALSE]
      [] format = "RGB16F" ->
            [bytes |-> rgb16fFromRgba32f(rgba, junk), ub |-> FALSE]
      [] format = "BGRA8" -> [bytes |-> bgra8FromRgba32f(rgba), ub |-> FALSE]
      [] format = "RGBA8" -> [bytes |-> rgba8FromRgba32f(rgba), ub |-> FALSE]
      [] format = "RGBA16" ->
            [bytes |-> rgba16FromRgba32f(rgba), ub |-> FALSE]
      [] format = "RGBA16F" ->
            [bytes |-> rgba16fFromRgba32f(rgba, junk), ub |-> FALSE]

\* The number of bytes allocated for a buffer.
bufferSize(buf) == Cardinality(DOMAIN buf)

\* imageCopy: a fresh buffer of m_dataSize bytes with the source's bytes.
imageCopy(s, junk) ==
    [img |-> withData(infoOf(s),
                      [i \in 0..(s.m_dataSize - 1) |->
                          readBytes(s.m_data, i, 1, junk)[1]]),
     ub |-> s.m_dataSize > bufferSize(s.m_data)]

\* imageToRgba32f(_dst, _src)
imageToRgba32f(s, junk) ==
    LET pixelCount == imageGetNumPixels(s)
        dataSize == pixelCount * bytesPerPixelOf("RGBA32F")
        bpp == bytesPerPixelOf(s.m_format)
        pixels == [p \in 0..(pixelCount - 1) |->
                      toRgba32f(s.m_format,
                                readBytes(s.m_data, p * bpp, bpp, junk))]
        data == IF s.m_format = "RGBA32F"
                THEN [i \in 0..(dataSize - 1) |->
                         readBytes(s.m_data, i, 1, junk)[1]]
                ELSE [i \in 0..(dataSize - 1) |->
                         floatToBytes(pixels[i \div 16][((i % 16) \div 4) + 1])
                             [(i % 4) + 1]]
    IN  [img |-> Image(s.m_width, s.m_height, "RGBA32F", s.m_numMips,
                       s.m_numFaces, dataSize, data),
         ub |-> pixelCount * bpp > bufferSize(s.m_data)]

\* The destination imageFromRgba32f fills when pixel p's converter stores
\* written[p].bytes at offset p*dstBytesPerPixel: a byte takes the value
\* last written to it.
fromRgba32fStored(dstFormat, s, written) ==
    LET pixelCount == imageGetNumPixels(s)
        dstBytesPerPixel == bytesPerPixelOf(dstFormat)
        dstDataSize == pixelCount * dstBytesPerPixel
        lastWriter(i) ==
            CHOOSE p \in 0..(pixelCount - 1) :
                /\ i - p * dstBytesPerPixel \in 0..(Len(written[p].bytes) - 1)
                /\ \A q \in (p + 1)..(pixelCount - 1) :
                      i - q * dstBytesPerPixel
                          \notin 0..(Len(written[q].bytes) - 1)
        dstData == [i \in 0..(dstDataSize - 1) |->
                       written[lastWriter(i)].bytes
                           [i - lastWriter(i) * dstBytesPerPixel + 1]]
    IN  [img |-> Image(s.m_width, s.m_height, dstFormat, s.m_numMips,
                       s.m_numFaces, dstDataSize, dstData),
         ub |-> \/ pixelCount * 16 > bufferSize(s.m_data)
                \/ \E p \in 0..(pixelCount - 1) :
                      \/ written[p].ub
                      \/ p * dstBytesPerPixel + Len(written[p].bytes)
                             > dstDataSize]

\* imageFromRgba32f(_dst, _dstFormat, _src): pixel p's converter writes
\* at offset p*dstBytesPerPixel.
imageFromRgba32f(dstFormat, s, junk) ==
    fromRgba32fStored(
        dstFormat, s,
        [p \in 0..(imageGetNumPixels(s) - 1) |->
            fromRgba32f(dstFormat,
                        toRgba32f("RGBA32F",
                                  readBytes(s.m_data, p * 16, 16, junk)),
                        junk)])

\* imageConvert(_dst, _dstFormat, _src)
imageConvert(dstFormat, s, junk) ==
    LET imageRgba32f == IF s.m_format = "RGBA32F"
                        THEN [img |-> s, ub |-> FALSE]
                        ELSE imageToRgba32f(s, junk)
        result == IF dstFormat = "RGBA32F"
                  THEN imageCopy(imageRgba32f.img, junk)
                  ELSE imageFromRgba32f(dstFormat, imageRgba32f.img, junk)
    IN  [img |-> result.img, ub |-> imageRgba32f.ub \/ result.ub]

\* The floats the input images are made of: 0, 1/4, 1/2, 3/4 and 1.
ConvertFloats ==
    {FloatZero, Float(0, 125, 0), Float(0, 126, 0), Float(0, 126, 4194304),
     FloatOne}

\* The pixels the input images are made of, as bytes.
ConvertPixels(format) ==
    CASE format = "RGBE" ->
            {<<128, 64, 32, 128>>, <<255, 128, 1, 129>>, <<128, 0, 0, 129>>,
             <<0, 0, 0, 0>>}
      [] format = "RGB32F" ->
            {floatToBytes(x) \o floatToBytes(x) \o floatToBytes(FloatOne)
                : x \in ConvertFloats}
      [] format = "RGBA32F" ->
            {floatToBytes(FloatOne) \o floatToBytes(x) \o floatToBytes(x)
                 \o floatToBytes(a)
                : x \in ConvertFloats, a \in {Float(0, 126, 0), FloatOne}}

\* Single-face, single-mip images of one row.
ConvertImages ==
    UNION {
        {Image(Len(px), 1, format, 1, 1, Len(px) * bytesPerPixelOf(format),
               [i \in 0..(Len(px) * bytesPerPixelOf(format) - 1) |->
                   px[(i \div bytesPerPixelOf(format)) + 1]
                     [(i % bytesPerPixelOf(format)) + 1]])
            : px \in UNION {[1..w -> ConvertPixels(format)]
                                : w \in 1..MaxConvertWidth}}
        : format \in ConvertFormats}

\* Largest number of conversions in a row.
MaxConvertOps == 2

InitConvert ==
    /\ image \in ConvertImages
    /\ src = image
    /\ file = NoFile
    /\ hist = <<>>
    /\ out = NoImage
    /\ ub = FALSE

\* imageConvert(_dst, _dstFormat, _src) with the caller's image as _src
\* and a second image, `out`, as _dst.
Convert ==
    /\ Len(hist) < MaxConvertOps
    /\ \E dstFormat \in ConvertFormats, junk \in {0, 255} :
          LET r == imageConvert(dstFormat, image, junk)
          IN  /\ out' = r.img
              /\ ub' = (ub \/ r.ub)
              /\ hist' = Append(hist, [op |-> "imageConvert",
                                       format |-> dstFormat])
    /\ UNCHANGED <<image, src, file>>

\* imageConvert(_image, _format): in place, through a temporary that is
\* moved into the image; nothing happens when the format is the image's.
ConvertInPlace ==
    /\ Len(hist) < MaxConvertOps
    /\ \E format \in ConvertFormats, junk \in {0, 255} :
          LET r == imageConvert(format, image, junk)
          IN  /\ IF format # image.m_format
                 THEN image' = r.img /\ ub' = (ub \/ r.ub)
                 ELSE UNCHANGED <<image, ub>>
              /\ hist' = Append(hist, [op |-> "imageConvertInPlace",
                                       format |-> format])
    /\ UNCHANGED <<src, file, out>>

NextConvert == Convert \/ ConvertInPlace

SpecConvert == InitConvert /\ [][NextConvert]_vars

\* C11: imageConvert(dst, F, src) with F the format of src leaves in dst
\* a copy of src, the same fields and the same bytes, for every format
C11_ConvertSameFormatCopies ==
    (/\ hist # <<>>
     /\ hist[Len(hist)].op = "imageConvert"
     /\ hist[Len(hist)].format = image.m_format
     /\ ~ub)
        => out = image

----------------------------------------------------------------------------
(* Cube crosses: imageCubemapFromCross, imageCrossFromCubemap and
   imageIsCubeCross on the bytes of the images. *)

\* Largest face size of the cube maps drawn as inputs of the cross
\* operations.
MaxCrossFace == 3

\* (aspect - 3.0f/4.0f) < 0.0001f with aspect = float(width)/float(height):
\* for sizes below 2500 a width/height above 3/4 is above it by more than
\* 0.0001; a zero height gives an infinity or a NaN, and false.
aspectWithin34(img) == img.m_height # 0 /\ 4 * img.m_width <= 3 * img.m_height

\* (aspect - 4.0f/3.0f) < 0.0001f
aspectWithin43(img) == img.m_height # 0 /\ 3 * img.m_width <= 4 * img.m_height

\* The body of a `for mip: for face < 6: for yy < rows(mip)` nest, one
\* entry per iteration in loop order.
mipFaceRowNest(numMips, maxRows, body(_, _, _)) ==
    LET all == [k \in 1..(6 * numMips * maxRows) |->
                    body(((k - 1) \div maxRows) % 6,
                         (k - 1) \div (6 * maxRows),
                         (k - 1) % maxRows)]
    IN  SelectSeq(all, LAMBDA c : c.cond)

\* faceOffsets[face] of a cross whose tiles are faceSize rows of
\* rowDataSize bytes and facePitch bytes wide.
crossFaceOffset(face, vertical, rowDataSize, facePitch) ==
    CASE face = 0 -> rowDataSize + 2 * facePitch
      [] face = 1 -> rowDataSize
      [] face = 2 -> facePitch
      [] face = 3 -> 2 * rowDataSize + facePitch
      [] face = 4 -> rowDataSize + facePitch
      [] face = 5 -> IF vertical THEN 3 * rowDataSize + facePitch
                     ELSE rowDataSize + 3 * facePitch

\* The row copies of imageCubemapFromCross.
cubemapFromCrossCopies(s, vertical) ==
    LET srcBytesPerPixel == bytesPerPixelOf(s.m_format)
        imagePitch == s.m_width * srcBytesPerPixel
        faceSize == IF vertical THEN (s.m_width + 2) \div 3
                    ELSE (s.m_width + 3) \div 4
        facePitch == faceSize * srcBytesPerPixel
        faceDataSize == facePitch * faceSize
        rowDataSize == imagePitch * faceSize
        body(face, mip, yy) ==
            [cond |-> yy < faceSize,
             src  |-> crossFaceOffset(face, vertical, rowDataSize, facePitch)
                          + imagePitch * yy,
             dst  |-> faceDataSize * face + facePitch * yy,
             n    |-> facePitch]
    IN  mipFaceRowNest(1, Max2(1, faceSize), body)

\* imageCubemapFromCross(_dst, _src): whether it returned true, the image
\* it made, and whether it stepped outside a buffer.
imageCubemapFromCross(s, junk) ==
    LET isVertical == aspectWithin34(s)
        isHorizontal == aspectWithin34(s)
        srcBytesPerPixel == bytesPerPixelOf(s.m_format)
        faceSize == IF isVertical THEN (s.m_width + 2) \div 3
                    ELSE (s.m_width + 3) \div 4
        dstDataSize == faceSize * srcBytesPerPixel * faceSize * CUBE_FACE_NUM
        copies == cubemapFromCrossCopies(s, isVertical)
        fresh == [i \in 0..(dstDataSize - 1) |-> junk]
        result == Image(faceSize, faceSize, s.m_format, 1, 6, dstDataSize,
                        applyCopies(fresh, s.m_data, copies, junk))
        turned == IF isVertical
                  THEN imageTransform(imageTransform(result, "FLIP_X", 5),
                                      "FLIP_Y", 5)
                  ELSE result
    IN  IF ~isVertical /\ ~isHorizontal
        THEN [ok |-> FALSE, img |-> NoImage, ub |-> FALSE]
        ELSE [ok |-> TRUE, img |-> turned,
              ub |-> copiesOutOfBounds(copies, dstDataSize,
                                       bufferSize(s.m_data))]

\* fromRgba32f(blackPixel, format, {0, 0, 0, 1}): the bytes of the pixel
\* the background of a cross is filled with.
blackPixel(format, junk) ==
    fromRgba32f(format, <<FloatZero, FloatZero, FloatZero, FloatOne>>, junk)

\* The fields of the cross imageCrossFromCubemap makes of cube map _src.
crossInfo(s, vertical) ==
    LET dstWidth == (IF vertical THEN 3 ELSE 4) * s.m_width
        dstHeight == (IF vertical THEN 4 ELSE 3) * s.m_width
        shape == ImageInfo(dstWidth, dstHeight, s.m_format, s.m_numMips, 1, 0)
    IN  ImageInfo(dstWidth, dstHeight, s.m_format, s.m_numMips, 1,
                  sumMipSizes(shape, s.m_numMips))

\* The row copies of imageCrossFromCubemap, from the copy of the source.
crossFromCubemapCopies(s, vertical) ==
    LET bytesPerPixel == bytesPerPixelOf(s.m_format)
        dst == crossInfo(s, vertical)
        body(face, mip, yy) ==
            LET srcWidth == mipDim(s.m_width, mip)
                srcPitch == srcWidth * bytesPerPixel
                mipWidth == mipDim(dst.m_width, mip)
                mipPitch == mipWidth * bytesPerPixel
                faceSize == mipWidth \div (IF vertical THEN 3 ELSE 4)
                facePitch == faceSize * bytesPerPixel
                rowDataSize == mipPitch * faceSize
            IN  [cond |-> yy < faceSize,
                 src  |-> imageGetMipOffsets(s, face, mip) + yy * srcPitch,
                 dst  |-> sumMipSizes(dst, mip)
                              + crossFaceOffset(face, vertical, rowDataSize,
                                                facePitch)
                              + yy * mipPitch,
                 n    |-> facePitch]
    IN  mipFaceRowNest(s.m_numMips, Max2(1, s.m_width), body)

\* imageCrossFromCubemap(_dst, _src, _vertical)
imageCrossFromCubemap(s, vertical, junk) ==
    LET copied == imageCopy(s, junk).img
        srcCpy == IF vertical
                  THEN imageTransform(imageTransform(copied, "FLIP_X", 5),
                                      "FLIP_Y", 5)
                  ELSE copied
        dst == crossInfo(s, vertical)
        bytesPerPixel == bytesPerPixelOf(s.m_format)
        black == blackPixel(s.m_format, junk)
        filled == [i \in 0..(dst.m_dataSize - 1) |->
                      black.bytes[(i % bytesPerPixel) + 1]]
        copies == crossFromCubemapCopies(s, vertical)
    IN  IF ~imageIsCubemap(s)
        THEN [ok |-> FALSE, img |-> NoImage, ub |-> FALSE]
        ELSE [ok |-> TRUE,
              img |-> withData(dst, applyCopies(filled, srcCpy.m_data,
                                                copies, junk)),
              ub |-> \/ black.ub
                     \/ Len(black.bytes) > bytesPerPixel
                     \/ copiesOutOfBounds(copies, dst.m_dataSize,
                                          s.m_dataSize)]

\* alignf(float(num)/den, _align) = uint32_t(_val/float(_align))*_align for
\* integers num, den: the quotients are exact where they are whole.
alignf(num, den, align) == (num \div (den * align)) * align

\* 0.01f
FloatHundredth == Float(0, 120, 2348810)

\* x < 0.01f
belowHundredth(x) ==
    /\ ~(x.e = 255 /\ x.m # 0)
    /\ floatGreater(FloatHundredth, x)

\* tap0 & tap1 & tap2 of imageIsCubeCross on the bytes at a key point;
\* the half-float formats are not followed.
keyPointIsBlack(format, point) ==
    CASE format \in {"BGR8", "RGB8", "BGRA8", "RGBA8"} ->
            point[1] < 2 /\ point[2] < 2 /\ point[3] < 2
      [] format \in {"RGB16", "RGBA16"} ->
            /\ point[1] + 256 * point[2] < 2
            /\ point[3] + 256 * point[4] < 2
            /\ point[5] + 256 * point[6] < 2
      [] format \in {"RGB32F", "RGBA32F"} ->
            /\ belowHundredth(floatOfBytes(SubSeq(point, 1, 4)))
            /\ belowHundredth(floatOfBytes(SubSeq(point, 5, 8)))
            /\ belowHundredth(floatOfBytes(SubSeq(point, 9, 12)))
      [] format = "RGBE" ->
            /\ belowHundredth(dyadic(point[1], point[4] - (128 + 8)))
            /\ belowHundredth(dyadic(point[2], point[4] - (128 + 8)))
            /\ belowHundredth(dyadic(point[3], point[4] - (128 + 8)))

\* The bytes imageIsCubeCross reads at a key point.
keyPointBytes(format) ==
    CASE format \in {"BGR8", "RGB8", "BGRA8", "RGBA8"} -> 3
      [] format \in {"RGB16", "RGBA16"} -> 6
      [] format \in {"RGB32F", "RGBA32F"} -> 12
      [] format = "RGBE" -> 4

\* keyPointsOffsets[0..5] of imageIsCubeCross, as a sequence.
keyPointsOffsets(img, isVertical) ==
    LET bytesPerPixel == bytesPerPixelOf(img.m_format)
        imagePitch == img.m_width * bytesPerPixel
        faceSize == alignf(img.m_width, IF isVertical THEN 3 ELSE 4,
                           bytesPerPixel)
        facePitch == faceSize * bytesPerPixel
        rowDataSize == imagePitch * faceSize
        halfFacePitch == alignf(facePitch, 2, bytesPerPixel)
        halfRowDataSize == alignf(rowDataSize, 2, bytesPerPixel)
        center0 == halfRowDataSize + halfFacePitch
        center1 == halfRowDataSize + 5 * halfFacePitch
        center2 == halfRowDataSize + 7 * halfFacePitch
        thirdRow == 2 * rowDataSize
        fourthRow == 3 * rowDataSize
    IN  IF isVertical
        THEN <<center0, center1, center0 + thirdRow, center1 + thirdRow,
               center0 + fourthRow, center1 + fourthRow>>
        ELSE <<center0, center1, center2, thirdRow + center0,
               thirdRow + center1, thirdRow + center2>>

\* imageIsCubeCross(_image): what it returns, and whether a key point it
\* looked at lies outside the image's buffer.
imageIsCubeCross(img, junk) ==
    LET isVertical == aspectWithin34(img)
        isHorizontal == aspectWithin43(img)
        offsets == keyPointsOffsets(img, isVertical)
        n == keyPointBytes(img.m_format)
        black(key) == keyPointIsBlack(img.m_format,
                                      readBytes(img.m_data, offsets[key], n,
                                                junk))
        looked(key) == \A k \in 1..(key - 1) : black(k)
    IN  IF 1 # img.m_numFaces \/ (~isVertical /\ ~isHorizontal)
        THEN [result |-> FALSE, ub |-> FALSE]
        ELSE [result |-> \A key \in 1..6 : black(key),
              ub |-> \E key \in 1..6 :
                        /\ looked(key)
                        /\ offsets[key] + n > bufferSize(img.m_data)]


\* Largest number of cross operations in a row.
MaxCrossOps == 3

\* The formats of the images drawn as inputs of the cross operations.
CrossFormats == {"BGR8", "RGBA8", "RGB32F"}

\* A well-formed image whose bytes are all zero.
BlackImage(w, h, format, numMips, numFaces) ==
    LET shape == TestImage(w, h, format, numMips, numFaces)
    IN  withData(infoOf(shape), [i \in DOMAIN shape.m_data |-> 0])

\* Width and height of the single-face images drawn as inputs: crosses of
\* both kinds, a square, and images narrower than a vertical cross.
CrossShapes ==
    {<<3, 4>>, <<4, 3>>, <<6, 8>>, <<8, 6>>, <<2, 2>>, <<1, 2>>, <<2, 3>>,
     <<3, 2>>}

\* Cube maps with labelled faces, and single-face images, labelled or black.
CrossImages ==
    {TestImage(n, n, f, 1, 6) : n \in 1..MaxCrossFace, f \in CrossFormats}
    \cup {TestImage(2, 2, "BGR8", 2, 6)}
    \cup {TestImage(wh[1], wh[2], "BGR8", 1, 1) : wh \in CrossShapes}
    \cup {BlackImage(wh[1], wh[2], f, 1, 1) :
             wh \in CrossShapes, f \in {"BGR8", "RGB32F"}}

InitCross ==
    /\ image \in CrossImages
    /\ src = image
    /\ file = NoFile
    /\ hist = <<>>
    /\ out = <<>>
    /\ ub = FALSE

\* imageCubemapFromCross(_image): the result replaces the image when the
\* call returns true.
CubemapFromCross ==
    /\ Len(hist) < MaxCrossOps
    /\ \E junk \in {0, 255} :
          LET r == imageCubemapFromCross(image, junk)
          IN  /\ image' = IF r.ok THEN r.img ELSE image
              /\ ub' = (ub \/ r.ub)
              /\ hist' = Append(hist, [op |-> "imageCubemapFromCross",
                                       ok |-> r.ok, vertical |-> FALSE,
                                       before |-> image])
    /\ UNCHANGED <<src, file, out>>

\* imageCrossFromCubemap(_image, _vertical)
CrossFromCubemap ==
    /\ Len(hist) < MaxCrossOps
    /\ \E vertical \in BOOLEAN, junk \in {0, 255} :
          LET r == imageCrossFromCubemap(image, vertical, junk)
          IN  /\ image' = IF r.ok THEN r.img ELSE image
              /\ ub' = (ub \/ r.ub)
              /\ hist' = Append(hist, [op |-> "imageCrossFromCubemap",
                                       ok |-> r.ok, vertical |-> vertical,
                                       before |-> image])
    /\ UNCHANGED <<src, file, out>>

\* imageIsCubeCross(_image)
IsCubeCross ==
    /\ Len(hist) < MaxCrossOps
    /\ \E junk \in {0, 255} :
          LET r == imageIsCubeCross(image, junk)
          IN  /\ out' = <<r.result>>
              /\ ub' = (ub \/ r.ub)
              /\ hist' = Append(hist, [op |-> "imageIsCubeCross",
                                       ok |-> r.result, vertical |-> FALSE,
                                       before |-> image])
    /\ UNCHANGED <<image, src, file>>

NextCross == CubemapFromCross \/ CrossFromCubemap \/ IsCubeCross

SpecCross == InitCross /\ [][NextCross]_vars

\* The bytes of the pixel (x, y) of the tile in column tileCol and row
\* tileRow of a single-mip cross whose tiles are faceSize pixels wide.
tilePixel(cross, faceSize, tileCol, tileRow, x, y) ==
    LET bpp == bytesPerPixelOf(cross.m_format)
    IN  readBytes(cross.m_data,
                  ((tileRow * faceSize + y) * cross.m_width
                       + tileCol * faceSize + x) * bpp,
                  bpp, 0)

\* The tile of a cross a face is laid out in: <<column, row>>.
faceTile(face, vertical) ==
    CASE face = 0 -> <<2, 1>>
      [] face = 1 -> <<0, 1>>
      [] face = 2 -> <<1, 0>>
      [] face = 3 -> <<1, 2>>
      [] face = 4 -> <<1, 1>>
      [] face = 5 -> IF vertical THEN <<1, 3>> ELSE <<3, 1>>

\* The faces of cube map `cube` are the tiles of `cross`, the -Z tile of a
\* vertical cross being turned by 180 degrees.
facesAreTiles(cube, cross, faceSize, vertical) ==
    \A face \in 0..5, x \in 0..(faceSize - 1), y \in 0..(faceSize - 1) :
        LET tile == faceTile(face, vertical)
            turn == vertical /\ face = 5
        IN  storedPixel(cube, x, y, 0, face)
              = tilePixel(cross, faceSize, tile[1], tile[2],
                          IF turn THEN faceSize - 1 - x ELSE x,
                          IF turn THEN faceSize - 1 - y ELSE y)

\* C12: imageCubemapFromCross returns true on a single-face 3:4 cross and
\* on a single-face 4:3 cross, and makes the 6-face, single-mip cube map of
\* face size ceil(W/3), respectively ceil(W/4), whose faces are the tiles
C12_CubemapFromBothCrosses ==
    LET last == hist[Len(hist)]
        cross == last.before
        vertical == 4 * cross.m_width = 3 * cross.m_height
        horizontal == 3 * cross.m_width = 4 * cross.m_height
        faceSize == IF vertical THEN (cross.m_width + 2) \div 3
                    ELSE (cross.m_width + 3) \div 4
    IN  (/\ hist # <<>>
         /\ last.op = "imageCubemapFromCross"
         /\ cross.m_numFaces = 1 /\ cross.m_numMips = 1
         /\ vertical \/ horizontal
         /\ ~ub)
            => /\ last.ok
               /\ infoOf(image)
                    = ImageInfo(faceSize, faceSize, cross.m_format, 1, 6,
                                6 * faceSize * faceSize
                                    * bytesPerPixelOf(cross.m_format))
               /\ facesAreTiles(image, cross, faceSize, vertical)

----------------------------------------------------------------------------
(* imageGenerateMipMapChain: the number of levels of the chain. *)

\* Largest width and height of the images whose mip chain is generated.
MaxChainDim == 8

RECURSIVE naturalMipCount(_, _)
\* The number of levels obtained by halving width and height, each floored
\* at 1, until the level is 1x1.
naturalMipCount(w, h) ==
    IF w <= 1 /\ h <= 1 THEN 1
    ELSE 1 + naturalMipCount(Max2(1, w \div 2), Max2(1, h \div 2))

\* Well-formed images of every size, with one level or with two.
ChainImages ==
    {infoOf(TestImage(w, h, f, m, n)) :
        w \in 1..MaxChainDim, h \in 1..MaxChainDim,
        f \in {"RGB8", "RGBA32F"}, m \in 1..2, n \in {1, 6}}

\* The values of _numMips the chain is asked for.
ChainRequests == {0, 1, 2, 3, 4, 5, 16, 255}

InitMips ==
    /\ image \in {img \in ChainImages :
                     img.m_numMips <= naturalMipCount(img.m_width,
                                                      img.m_height)}
    /\ src = image
    /\ file = NoFile
    /\ hist = <<>>
    /\ out = <<>>
    /\ ub = FALSE

\* imageGenerateMipMapChain(_image, _numMips) on an image that has not
\* been given a chain yet.
GenerateMipMapChain ==
    /\ hist = <<>>
    /\ \E numMips \in ChainRequests :
          LET r == imageGenerateMipMapChainInfo(image, numMips)
          IN  /\ image' = r.image
              /\ ub' = (ub \/ r.ub)
              /\ hist' = <<[op |-> "imageGenerateMipMapChain",
                            numMips |-> numMips, before |-> image]>>
    /\ UNCHANGED <<src, file, out>>

\* imageGenerateMipMapChain(_image, _numMips) once more, asking for the
\* levels the image has: nothing is added.
GenerateMipMapChainAgain ==
    /\ hist # <<>>
    /\ image.m_numMips > 0
    /\ LET r == imageGenerateMipMapChainInfo(image, image.m_numMips)
       IN  /\ image' = r.image
           /\ ub' = (ub \/ r.ub)
           /\ hist' = <<[op |-> "imageGenerateMipMapChain",
                         numMips |-> image.m_numMips, before |-> image]>>
    /\ UNCHANGED <<src, file, out>>

NextMips == GenerateMipMapChain \/ GenerateMipMapChainAgain

SpecMips == InitMips /\ [][NextMips]_vars

\* C14: after imageGenerateMipMapChain(image, n) the image has
\* min(n, 16, natural_mip_count) levels, natural_mip_count being the number
\* of halvings of width and height down to 1x1, square image or not
C14_MipCountIsMinOfRequestAndNatural ==
    (hist # <<>> /\ ~ub)
        => image.m_numMips
             = Min2(hist[1].numMips,
                    Min2(16, naturalMipCount(hist[1].before.m_width,
                                             hist[1].before.m_height)))

----------------------------------------------------------------------------
(* Ownership of buffers: which malloc'ed buffers are live, which image
   points at which, across the operations that allocate, alias, move and
   free.  The contents of the buffers are left out here; an image's m_data
   is the address of its buffer. *)

\* The null pointer; the addresses malloc returns are 1, 2, 3, ...
NULL == 0

\* An image as its constructor leaves it: no buffer.
ImageCtor == Image(0, 0, "Unknown", 0, 0, 0, NULL)

\* A memory: the Image objects in scope by name, the live buffers, the
\* next address malloc hands out (addresses are not handed out twice, so
\* that a stale pointer is never taken for a live one), the buffers
\* written in place since the call began, and whether a buffer was freed
\* twice or used after it was freed.
Memory(img, live, next, dirty, bad) ==
    [img |-> img, live |-> live, next |-> next, dirty |-> dirty,
     bad |-> bad]

\* `Image name;` a local object coming into scope.
scopeEnter(M, name) == [M EXCEPT !.img = (name :> ImageCtor) @@ @]

\* A local object going out of scope: struct Image has no destructor.
scopeLeave(M, names) ==
    [M EXCEPT !.img = [n \in (DOMAIN @) \ names |-> @[n]]]

\* imageUnload(_image)
imageUnloadMem(M, x) ==
    LET p == M.img[x].m_data
    IN  IF p = NULL THEN M
        ELSE [M EXCEPT !.live = @ \ {p},
                       !.bad = @ \/ p \notin M.live,
                       !.img[x].m_data = NULL]

\* imageRef(_dst, _src)
imageRefMem(M, d, s) == [M EXCEPT !.img[d] = M.img[s]]

\* imageMove(_dst, _src)
imageMoveMem(M, d, s) ==
    LET unloaded == imageUnloadMem(M, d)
        referred == imageRefMem(unloaded, d, s)
    IN  [referred EXCEPT !.img[s].m_data = NULL]

\* The buffers of the images `sources` are read or written: a buffer that
\* is not live is used after its free.
touch(M, sources) ==
    [M EXCEPT !.bad = @ \/ \E s \in sources : M.img[s].m_data \notin M.live]

\* The buffer of the image x is written in place.
writeInPlace(M, x) ==
    [touch(M, {x}) EXCEPT !.dirty = @ \cup {M.img[x].m_data}]

\* data = malloc(size), filled from the images `sources`, and
\* `Image result` given the fields `info` and the pointer `data`.
mallocResult(M, result, info, sources) ==
    LET touched == touch(M, sources)
    IN  [touched EXCEPT !.img[result] = withData(info, M.next),
                        !.live = @ \cup {M.next},
                        !.next = @ + 1]

\* malloc, fill, `Image result`, imageMove(_dst, result): the tail common
\* to the functions that build their result in a fresh buffer.
produce(M, d, info, sources) ==
    LET made == mallocResult(scopeEnter(M, "produce.result"), "produce.result", info, sources)
    IN  scopeLeave(imageMoveMem(made, d, "produce.result"), {"produce.result"})

\* imageCopy(_dst, _src)
imageCopyMem(M, d, s) ==
    LET unloaded == imageUnloadMem(M, d)
        touched == touch(unloaded, {s})
    IN  [touched EXCEPT !.img[d] = withData(infoOf(M.img[s]), M.next),
                        !.live = @ \cup {M.next},
                        !.next = @ + 1]

\* imageToRgba32f(_dst, _src)
imageToRgba32fMem(M, d, s) == produce(M, d, toRgba32fInfo(M.img[s]), {s})

\* imageFromRgba32f(_dst, _dstFormat, _src)
imageFromRgba32fMem(M, d, dstFormat, s) ==
    produce(M, d, fromRgba32fInfo(M.img[s], dstFormat), {s})

\* "Image rgba32f to _dst" of imageConvert: _dst is unloaded, and is then
\* a copy of the RGBA32F image or its conversion to _dstFormat.
rgba32fToDst(M, d, dstFormat) ==
    IF "RGBA32F" = dstFormat
    THEN imageCopyMem(imageUnloadMem(M, d), d, "convert.imageRgba32f")
    ELSE imageFromRgba32fMem(imageUnloadMem(M, d), d, dstFormat,
                             "convert.imageRgba32f")

\* imageConvert(_dst, _dstFormat, _src), without its last step.
imageConvertBody(M, d, dstFormat, s) ==
    rgba32fToDst(
        IF "RGBA32F" = M.img[s].m_format
        THEN imageRefMem(scopeEnter(M, "convert.imageRgba32f"),
                         "convert.imageRgba32f", s)
        ELSE imageToRgba32fMem(scopeEnter(M, "convert.imageRgba32f"),
                               "convert.imageRgba32f", s),
        d, dstFormat)

\* The last step of imageConvert unloading its RGBA32F image whether it is
\* a copy or a reference of _src.
unloadIfCopy_always(M, s) ==
    scopeLeave(imageUnloadMem(M, "convert.imageRgba32f"),
               {"convert.imageRgba32f"})

\* "Unload imageRgba32f if its a copy and NOT a reference of _src."
unloadIfCopy(M, s) ==
    scopeLeave(IF M.img[s].m_data # M.img["convert.imageRgba32f"].m_data
               THEN imageUnloadMem(M, "convert.imageRgba32f")
               ELSE M,
               {"convert.imageRgba32f"})

\* imageConvert(_dst, _dstFormat, _src)
imageConvertMem(M, d, dstFormat, s) ==
    unloadIfCopy(imageConvertBody(M, d, dstFormat, s), s)

\* imageConvert(_image, _format), in place.
imageConvertInPlaceMem(M, x, format) ==
    IF format # M.img[x].m_format
    THEN LET entered == scopeEnter(M, "tmp")
             converted == imageConvertMem(entered, "tmp", format, x)
         IN  scopeLeave(imageMoveMem(converted, x, "tmp"), {"tmp"})
    ELSE M

\* imageRefOrConvert(_dst, _format, _src): the memory after it, and what
\* it returns.
imageRefOrConvertMem(M, d, format, s) ==
    IF format = M.img[s].m_format
    THEN [mem |-> imageRefMem(M, d, s), ret |-> TRUE]
    ELSE [mem |-> imageConvertMem(imageUnloadMem(M, d), d, format, s),
          ret |-> FALSE]

\* "Cleanup" of the operations that work on an RGBA32F image: it is
\* unloaded unless it is a reference.
cleanupRgba32f(M, imageIsRef) ==
    scopeLeave(IF ~imageIsRef THEN imageUnloadMem(M, "op.imageRgba32f")
               ELSE M,
               {"op.imageRgba32f", "op.result"})

\* "Convert result to source format": `result` goes to d, moved if the
\* source is RGBA32F, converted and unloaded otherwise.
resultToSourceFormat(M, d, srcFormat) ==
    IF "RGBA32F" = srcFormat
    THEN imageMoveMem(M, d, "op.result")
    ELSE imageUnloadMem(imageConvertMem(M, d, srcFormat, "op.result"),
                        "op.result")

\* What follows imageRefOrConvert(imageRgba32f, RGBA32F, _src), which gave
\* `conv`: the result of the fields `info` is built from the RGBA32F
\* image, goes to d in the format srcFormat, and the RGBA32F image goes.
fromRgba32fImage(conv, d, srcFormat, info) ==
    cleanupRgba32f(
        resultToSourceFormat(
            mallocResult(conv.mem, "op.result", info, {"op.imageRgba32f"}),
            d, srcFormat),
        conv.ret)

\* The operations that work on an RGBA32F image of s and leave a result of
\* the fields `info` in d.
throughRgba32f(M, d, s, info) ==
    fromRgba32fImage(
        imageRefOrConvertMem(
            scopeEnter(scopeEnter(M, "op.imageRgba32f"), "op.result"),
            "op.imageRgba32f", "RGBA32F", s),
        d, M.img[s].m_format, info)

\* The fields of `result` in imageResize
resizeResultInfo(img, width, height) ==
    ImageInfo(width, height, "RGBA32F", 1, img.m_numFaces,
              width * (4 * 4) * height * img.m_numFaces)

\* imageResize(_dst, _width, _height, _src)
imageResizeMem(M, d, width, height, s) ==
    throughRgba32f(M, d, s, resizeResultInfo(M.img[s], width, height))

\* imageResize(_image, _width, _height), in place.
imageResizeInPlaceMem(M, x, width, height) ==
    LET resized == imageResizeMem(scopeEnter(M, "tmp"), "tmp", width, height, x)
    IN  scopeLeave(imageMoveMem(resized, x, "tmp"), {"tmp"})

\* The fields of `result` in imageGenerateMipMapChain
mipChainResultInfo(img, numMips) ==
    LET imageRgba32f == toRgba32fInfo(img)
        mipCount == IF img.m_numFaces = 0 THEN 0
                    ELSE mipChainCount(imageRgba32f,
                                       Min2(numMips, MAX_MIP_NUM), 0)
    IN  ImageInfo(img.m_width, img.m_height, "RGBA32F", mipCount,
                  img.m_numFaces,
                  img.m_numFaces * sumMipSizes(imageRgba32f, mipCount))

\* imageGenerateMipMapChain(_image, _numMips)
imageGenerateMipMapChainMem(M, x, numMips) ==
    throughRgba32f(M, x, x, mipChainResultInfo(M.img[x], numMips))

\* imageApplyGamma and imageClamp(_image): the RGBA32F image of _image is
\* written in place and handed to imageRefOrConvert for the way back.
inPlaceThroughRgba32f(M, x) ==
    LET entered == scopeEnter(M, "op.imageRgba32f")
        conv == imageRefOrConvertMem(entered, "op.imageRgba32f", "RGBA32F", x)
        written == writeInPlace(conv.mem, "op.imageRgba32f")
        back == imageRefOrConvertMem(written, x, M.img[x].m_format,
                                     "op.imageRgba32f")
    IN  scopeLeave(back.mem, {"op.imageRgba32f"})

\* imageApplyGamma(_image, _gammaPow); nothing is done for a _gammaPow
\* within 0.0001 of 1.
imageApplyGammaMem(M, x, gammaIsOne) ==
    IF gammaIsOne THEN M ELSE inPlaceThroughRgba32f(M, x)

\* imageClamp(_image)
imageClampInPlaceMem(M, x) == inPlaceThroughRgba32f(M, x)

\* "Move or convert to original format" of imageClamp(_dst, _src)
clampToDst(M, d, srcFormat) ==
    scopeLeave(IF "RGBA32F" = srcFormat
               THEN imageMoveMem(M, d, "op.imageRgba32f")
               ELSE imageUnloadMem(
                        imageConvertMem(M, d, srcFormat, "op.imageRgba32f"),
                        "op.imageRgba32f"),
               {"op.imageRgba32f"})

\* imageClamp(_dst, _src)
imageClampMem(M, d, s) ==
    clampToDst(
        writeInPlace(
            imageConvertMem(scopeEnter(M, "op.imageRgba32f"),
                            "op.imageRgba32f", "RGBA32F", s),
            "op.imageRgba32f"),
        d, M.img[s].m_format)

\* A remap that checks its input, builds its result from _src in a fresh
\* buffer and moves it to _dst: imageCubemapFromCross,
\* imageHStripFromCubemap, imageCubemapFromHStrip.  `outcome` is what the
\* remap makes of the fields of _src.  The memory after it, and what it
\* returns.
remapMem(M, d, s, outcome) ==
    IF ~outcome.ok THEN [mem |-> M, ret |-> FALSE]
    ELSE [mem |-> produce(M, d, outcome.image, {s}), ret |-> TRUE]

\* imageCubemapFromCross(_dst, _src)
imageCubemapFromCrossMem(M, d, s) ==
    remapMem(M, d, s, imageCubemapFromCrossInfo(M.img[s]))

\* imageHStripFromCubemap(_dst, _src)
imageHStripFromCubemapMem(M, d, s) ==
    remapMem(M, d, s, imageHStripFromCubemapInfo(M.img[s]))

\* imageCubemapFromHStrip(_dst, _src) unloading _dst before its input
\* check.
imageCubemapFromHStripMem_unloadsFirst(M, d, s) ==
    remapMem(imageUnloadMem(M, d), d, s,
             imageCubemapFromHStripInfo(M.img[s]))

\* imageCubemapFromHStrip(_dst, _src)
imageCubemapFromHStripMem(M, d, s) ==
    remapMem(M, d, s, imageCubemapFromHStripInfo(M.img[s]))

\* The fields of `result` in imageCubemapFromLatLong
cubemapFromLatLongResultInfo(img) ==
    LET dstFaceSize == (img.m_height + 1) \div 2
    IN  ImageInfo(dstFaceSize, dstFaceSize, "RGBA32F", 1, 6,
                  dstFaceSize * (4 * 4) * dstFaceSize * CUBE_FACE_NUM)

\* imageCubemapFromLatLong(_dst, _src, _useBilinearInterpolation)
imageCubemapFromLatLongMem(M, d, s) ==
    IF ~imageIsLatLong(M.img[s]) THEN [mem |-> M, ret |-> FALSE]
    ELSE [mem |-> throughRgba32f(M, d, s,
                                 cubemapFromLatLongResultInfo(M.img[s])),
          ret |-> TRUE]

\* The fields of `result` in imageLatLongFromCubemap
latLongFromCubemapResultInfo(img) ==
    LET shape == ImageInfo(img.m_height * 4, img.m_height * 2, "RGBA32F",
                           img.m_numMips, 1, 0)
    IN  [shape EXCEPT !.m_dataSize = sumMipSizes(shape, img.m_numMips)]

\* imageLatLongFromCubemap(_dst, _src, _useBilinearInterpolation)
imageLatLongFromCubemapMem(M, d, s) ==
    IF ~imageIsCubemap(M.img[s]) THEN [mem |-> M, ret |-> FALSE]
    ELSE [mem |-> throughRgba32f(M, d, s,
                                 latLongFromCubemapResultInfo(M.img[s])),
          ret |-> TRUE]

\* imageCrossFromCubemap past its input check: a copy of _src is made and
\* written, the result of the fields `info` built from it and moved to
\* _dst, and the copy unloaded.
crossFromCopy(M, d, s, info) ==
    scopeLeave(
        imageUnloadMem(
            produce(writeInPlace(imageCopyMem(scopeEnter(M, "srcCpy"),
                                              "srcCpy", s),
                                 "srcCpy"),
                    d, info, {"srcCpy"}),
            "srcCpy"),
        {"srcCpy"})

\* imageCrossFromCubemap(_dst, _src, _vertical)
imageCrossFromCubemapMem(M, d, s, vertical) ==
    IF ~imageIsCubemap(M.img[s]) THEN [mem |-> M, ret |-> FALSE]
    ELSE [mem |-> crossFromCopy(M, d, s,
                      imageCrossFromCubemapInfo(M.img[s], vertical).image),
          ret |-> TRUE]

\* void remap(Image& _image): Image tmp; if (remap(tmp, _image))
\* imageMove(_image, tmp).  `remapped` is what remap(tmp, _image) gave in a
\* memory where tmp is in scope.
remapInPlace(remapped, x) ==
    scopeLeave(IF remapped.ret THEN imageMoveMem(remapped.mem, x, "tmp")
               ELSE remapped.mem,
               {"tmp"})

\* The names of the six images of a face list.
faceNames == <<"f0", "f1", "f2", "f3", "f4", "f5">>

\* The face list as the tuple the checks of the fields take.
faceListOf(M) == [face \in 1..6 |-> M.img[faceNames[face]]]

RECURSIVE faceListLoop(_, _, _, _)
\* for (face = 0; face < 6; ++face) of imageFaceListFromCubemap: a buffer
\* is allocated, filled, and moved to _faceList[face].
faceListLoop(M, cubemap, info, face) ==
    IF face < 6
    THEN faceListLoop(produce(M, faceNames[face + 1], info, {cubemap}),
                      cubemap, info, face + 1)
    ELSE M

\* imageFaceListFromCubemap(_faceList, _cubemap)
imageFaceListFromCubemapMem(M, cubemap) ==
    IF ~imageIsCubemap(M.img[cubemap]) THEN [mem |-> M, ret |-> FALSE]
    ELSE [mem |-> faceListLoop(
                      M, cubemap,
                      imageFaceListFromCubemapInfo(M.img[cubemap]).image[1],
                      0),
          ret |-> TRUE]

\* imageCubemapFromFaceList(_cubemap, _faceList)
imageCubemapFromFaceListMem(M, cubemap) ==
    IF ~imageValidCubemapFaceList(faceListOf(M))
    THEN [mem |-> M, ret |-> FALSE]
    ELSE [mem |-> produce(M, cubemap,
                          imageCubemapFromFaceListInfo(faceListOf(M)).image,
                          {faceNames[face] : face \in 1..6}),
          ret |-> TRUE]

\* imageLoadDds, imageLoadKtx, imageLoadHdr, imageLoadTga (_image, _fp):
\* `outcome` is what the loader makes of the file; one that rejects the
\* file returns before it allocates, one that accepts it reads the payload
\* into a fresh buffer and moves the result to _image.
imageLoadFileMem(M, x, outcome) ==
    IF ~outcome.ok THEN [mem |-> M, ret |-> FALSE]
    ELSE [mem |-> produce(M, x, outcome.image, {}), ret |-> TRUE]

\* "Convert if necessary" of imageLoad, after a loader that gave `loaded`.
convertIfNecessary(loaded, x, convertTo) ==
    IF ~loaded.ret THEN loaded
    ELSE IF "Unknown" # convertTo /\ loaded.mem.img[x].m_format # convertTo
    THEN [mem |-> imageConvertInPlaceMem(loaded.mem, x, convertTo),
          ret |-> TRUE]
    ELSE loaded

\* imageLoad(_image, _filePath, _convertTo): `opened` is whether fopen
\* gave a file, `known` whether its magic is that of one of the four file
\* types.
imageLoadMem(M, x, opened, known, outcome, convertTo) ==
    IF ~opened \/ ~known THEN [mem |-> M, ret |-> FALSE]
    ELSE convertIfNecessary(imageLoadFileMem(M, x, outcome), x, convertTo)

\* imageSaveHdr past imageRefOrConvert(imageRgbe, RGBE, _image), which
\* gave `conv`: it returns if fopen fails, and else writes the file and
\* unloads imageRgbe unless it is a reference.
saveRgbe(conv, opened) ==
    IF ~opened
    THEN [mem |-> scopeLeave(conv.mem, {"imageRgbe"}), ret |-> FALSE]
    ELSE [mem |-> scopeLeave(
                      IF ~conv.ret
                      THEN imageUnloadMem(touch(conv.mem, {"imageRgbe"}),
                                          "imageRgbe")
                      ELSE touch(conv.mem, {"imageRgbe"}),
                      {"imageRgbe"}),
          ret |-> TRUE]

\* imageSaveHdr(_fileName, _image)
imageSaveHdrMem(M, s, opened) ==
    saveRgbe(imageRefOrConvertMem(scopeEnter(M, "imageRgbe"), "imageRgbe",
                                  "RGBE", s),
             opened)

\* imageSaveDds, imageSaveKtx, imageSaveTga (_fileName, _image)
imageSaveFileMem(M, s, opened) ==
    IF ~opened THEN [mem |-> M, ret |-> FALSE]
    ELSE [mem |-> touch(M, {s}), ret |-> TRUE]

ImageFileTypes == {"DDS", "KTX", "TGA", "HDR"}

\* checkValidInternalFormat(_fileType, _internalFormat)
checkValidInternalFormat(fileType, internalFormat) ==
    IF "DDS" = fileType THEN contains(internalFormat, s_ddsValidFormats)
    ELSE IF "KTX" = fileType THEN contains(internalFormat, s_ktxValidFormats)
    ELSE IF "TGA" = fileType THEN contains(internalFormat, <<"BGR8", "BGRA8">>)
    ELSE IF "HDR" = fileType THEN contains(internalFormat, <<"RGBE">>)
    ELSE FALSE

\* "Get image in desired format" of imageSave
saveFormat(M, s, convertTo) ==
    IF "Unknown" # convertTo
    THEN imageRefOrConvertMem(scopeEnter(M, "image"), "image", convertTo, s)
    ELSE [mem |-> imageRefMem(scopeEnter(M, "image"), "image", s),
          ret |-> TRUE]

\* "Check for valid texture format and save" of imageSave
saveChecked(M, ft, opened) ==
    IF ~checkValidInternalFormat(ft, M.img["image"].m_format)
    THEN [mem |-> M, ret |-> FALSE]
    ELSE IF "HDR" = ft THEN imageSaveHdrMem(M, "image", opened)
    ELSE imageSaveFileMem(M, "image", opened)

\* "Cleanup" of imageSave
saveCleanup(saved, imageIsRef) ==
    [mem |-> scopeLeave(IF ~imageIsRef
                        THEN imageUnloadMem(saved.mem, "image")
                        ELSE saved.mem,
                        {"image"}),
     ret |-> saved.ret]

\* imageSave past "Get image in desired format", which gave `conv`.
saveConverted(conv, ft, opened) ==
    saveCleanup(saveChecked(conv.mem, ft, opened), conv.ret)

\* imageSave(_image, _fileName, _ft, _convertTo)
imageSaveMem(M, s, ft, convertTo, opened) ==
    saveConverted(saveFormat(M, s, convertTo), ft, opened)

\* The caller's images: a and b, which own their buffers; r, which the
\* caller uses for references (imageRef, imageRefOrConvert) and of which
\* it remembers whether it is one; and a face list.
Owners == {"a", "b"} \cup {faceNames[face] : face \in 1..6}
CallerNames == Owners \cup {"r"}

MaxHeapOps == 2
MaxHeapDim == 2
HeapFormats == {"BGR8", "RGBE", "RGBA32F"}

\* The images a caller starts with: a lat-long image, a cube map, a
\* vertical cross and a square image, as imageLoad leaves them.
HeapShapes ==
    {infoOf(TestImage(s[1], s[2], format, 1, s[3])) :
        s \in {<<2, 1, 1>>, <<1, 1, 6>>, <<3, 4, 1>>, <<2, 2, 1>>},
        format \in HeapFormats}

InitHeap ==
    /\ \E info \in HeapShapes :
         image = [x \in CallerNames |->
                     IF x = "a" THEN withData(info, 1) ELSE ImageCtor]
    /\ src = [img |-> <<>>, live |-> {}]
    /\ file = NoFile
    /\ hist = <<>>
    /\ out = [live |-> {1}, next |-> 2, dirty |-> {}, rIsRef |-> TRUE]
    /\ ub = FALSE

\* The memory the next call starts in.
heapNow == Memory(image, out.live, out.next, {}, ub)

\* The images a call may read: those that hold a live buffer.
Loaded == {x \in CallerNames : image[x].m_data \in out.live}

\* The images a call may write its result to: a or b.
Dsts == {"a", "b"}

\* The images a call with the output image d may read: d itself, for which
\* the caller takes the overload that works on one image, and the loaded
\* images that do not share their buffer with d.
SourcesFor(d) ==
    {s \in Loaded : s = d \/ image[s].m_data # image[d].m_data}

\* A call has run and left the memory `mem` and returned `ret`.
ranHeap(name, dst, ret, mem, rIsRef) ==
    /\ Len(hist) < MaxHeapOps
    /\ image' = mem.img
    /\ src' = [img |-> image, live |-> out.live]
    /\ hist' = Append(hist, [op |-> name, dst |-> dst, ret |-> ret])
    /\ out' = [live |-> mem.live, next |-> mem.next,
               dirty |-> mem.dirty \cap out.live, rIsRef |-> rIsRef]
    /\ ub' = mem.bad
    /\ UNCHANGED file

\* A call that returns a bool, on a or b.
ranBool(name, dst, r) == ranHeap(name, dst, r.ret, r.mem, out.rIsRef)

\* A call that returns nothing, on a or b.
ranVoid(name, dst, mem) == ranHeap(name, dst, TRUE, mem, out.rIsRef)

\* The caller unloads an image it owns; r if it is not a reference.
HeapUnload ==
    \E x \in CallerNames :
        /\ x = "r" => ~out.rIsRef
        /\ ranHeap("imageUnload", x, TRUE, imageUnloadMem(heapNow, x),
                   IF x = "r" THEN TRUE ELSE out.rIsRef)

\* r is made a reference of a or b; it does not hold a buffer of its own.
HeapRef ==
    \E s \in Dsts \cap Loaded :
        /\ out.rIsRef \/ image["r"].m_data = NULL
        /\ ranHeap("imageRef", "r", TRUE, imageRefMem(heapNow, "r", s), TRUE)

HeapMove ==
    \E d \in Dsts : \E s \in Dsts \ {d} :
        ranVoid("imageMove", d, imageMoveMem(heapNow, d, s))

HeapCopy ==
    \E d \in Dsts : \E s \in SourcesFor(d) \ {d} :
        ranVoid("imageCopy", d, imageCopyMem(heapNow, d, s))

\* imageConvert(_dst, _dstFormat, _src), and imageConvert(_image, _format)
\* when the caller wants the image itself converted.
HeapConvert ==
    \E d \in Dsts, format \in HeapFormats : \E s \in SourcesFor(d) :
        IF d = s
        THEN ranVoid("imageConvert", d,
                     imageConvertInPlaceMem(heapNow, d, format))
        ELSE ranVoid("imageConvert", d,
                     imageConvertMem(heapNow, d, format, s))

\* The reference r goes out of scope and a new `Image r;` comes into it.
HeapDropRef ==
    /\ out.rIsRef
    /\ image["r"].m_data # NULL
    /\ ranHeap("Image r", "r", TRUE, scopeEnter(heapNow, "r"), TRUE)

\* imageRefOrConvert(r, _format, _src) for an r that holds nothing, as the
\* function unloads it when it converts: the caller keeps what it returns.
HeapRefOrConvert ==
    \E s \in Dsts \cap Loaded, format \in HeapFormats :
        /\ image["r"].m_data = NULL
        /\ LET r == imageRefOrConvertMem(heapNow, "r", format, s)
           IN  ranHeap("imageRefOrConvert", "r", r.ret, r.mem, r.ret)

HeapResize ==
    \E d \in Dsts, width \in 1..MaxHeapDim, height \in 1..MaxHeapDim :
      \E s \in SourcesFor(d) :
        IF d = s
        THEN ranVoid("imageResize", d,
                     imageResizeInPlaceMem(heapNow, d, width, height))
        ELSE ranVoid("imageResize", d,
                     imageResizeMem(heapNow, d, width, height, s))

HeapGenerateMipMapChain ==
    \E x \in Dsts \cap Loaded, numMips \in {1, 2} :
        ranVoid("imageGenerateMipMapChain", x,
                imageGenerateMipMapChainMem(heapNow, x, numMips))

HeapApplyGamma ==
    \E x \in Dsts \cap Loaded, gammaIsOne \in BOOLEAN :
        ranVoid("imageApplyGamma", x,
                imageApplyGammaMem(heapNow, x, gammaIsOne))

HeapClamp ==
    \E d \in Dsts : \E s \in SourcesFor(d) :
        IF d = s
        THEN ranVoid("imageClamp", d, imageClampInPlaceMem(heapNow, d))
        ELSE ranVoid("imageClamp", d, imageClampMem(heapNow, d, s))

\* A remap from s to d, or of d itself by the overload that takes one
\* image: remap(mem, dst, src) is the remap with an output image.
ranRemap(name, d, s, remap(_, _, _)) ==
    IF d = s
    THEN ranVoid(name, d,
                 remapInPlace(remap(scopeEnter(heapNow, "tmp"), "tmp", d), d))
    ELSE ranBool(name, d, remap(heapNow, d, s))

HeapCubemapFromCross ==
    \E d \in Dsts : \E s \in SourcesFor(d) :
        ranRemap("imageCubemapFromCross", d, s, imageCubemapFromCrossMem)

HeapCrossFromCubemap ==
    \E d \in Dsts, vertical \in BOOLEAN : \E s \in SourcesFor(d) :
        LET remap(mem, dst, source) ==
                imageCrossFromCubemapMem(mem, dst, source, vertical)
        IN  ranRemap("imageCrossFromCubemap", d, s, remap)

HeapCubemapFromLatLong ==
    \E d \in Dsts : \E s \in SourcesFor(d) :
        ranRemap("imageCubemapFromLatLong", d, s, imageCubemapFromLatLongMem)

HeapLatLongFromCubemap ==
    \E d \in Dsts : \E s \in SourcesFor(d) :
        ranRemap("imageLatLongFromCubemap", d, s, imageLatLongFromCubemapMem)

HeapHStripFromCubemap ==
    \E d \in Dsts : \E s \in SourcesFor(d) :
        ranRemap("imageHStripFromCubemap", d, s, imageHStripFromCubemapMem)

HeapCubemapFromHStrip ==
    \E d \in Dsts : \E s \in SourcesFor(d) :
        ranRemap("imageCubemapFromHStrip", d, s, imageCubemapFromHStripMem)

HeapFaceListFromCubemap ==
    \E s \in Dsts \cap Loaded :
        ranBool("imageFaceListFromCubemap", "f0",
                imageFaceListFromCubemapMem(heapNow, s))

HeapCubemapFromFaceList ==
    \E d \in Dsts :
        /\ \A face \in 1..6 : faceNames[face] \in Loaded
        /\ ranBool("imageCubemapFromFaceList", d,
                   imageCubemapFromFaceListMem(heapNow, d))

\* What a loader gave, without the bytes.
loadedInfo(r) == Outcome(r.ok, IF r.ok THEN infoOf(r.image) ELSE NoInfo, r.ub)

\* What the four loaders make of small files: the headers of TgaHeaders,
\* resolution lines of a .hdr file behind a good or a bad magic, and the
\* .dds and .ktx files of HeaderImages with chosen counts.
LoadOutcomes(load) ==
    IF load = "imageLoadTga"
    THEN {tgaLoadInfo(h) : h \in {t \in TgaHeaders : t.m_width = 2
                                                      /\ t.m_height = 1}}
    ELSE IF load = "imageLoadHdr"
    THEN {Outcome(FALSE, NoInfo, FALSE)}
         \cup {hdrLoadInfo(MaxHeapDim, height) : height \in 1..MaxHeapDim}
    ELSE IF load = "imageLoadDds"
    THEN {loadedInfo(imageLoadDds(ddsFileWithCounts(base, mipMapCount), 0)) :
             base \in HeaderImages("RGBA32F"), mipMapCount \in {1}}
         \cup {Outcome(FALSE, NoInfo, FALSE)}
    ELSE {loadedInfo(imageLoadKtx(ktxFileWithCounts(base, 1, numFaces), 0)) :
             base \in HeaderImages("RGBA32F"), numFaces \in {0, 6}}

HeapLoadFile ==
    \E x \in Dsts, load \in Loads :
        \E outcome \in LoadOutcomes(load) :
            ranBool(load, x, imageLoadFileMem(heapNow, x, outcome))

HeapLoad ==
    \E x \in Dsts, opened \in BOOLEAN, known \in BOOLEAN, load \in Loads,
       convertTo \in {"Unknown", "RGBA32F"} :
        \E outcome \in LoadOutcomes(load) :
            ranBool("imageLoad", x,
                    imageLoadMem(heapNow, x, opened, known, outcome,
                                 convertTo))

HeapSave ==
    \E s \in Loaded, ft \in ImageFileTypes, opened \in BOOLEAN,
       convertTo \in {"Unknown", "RGBE", "BGR8"} :
        ranBool("imageSave", s,
                imageSaveMem(heapNow, s, ft, convertTo, opened))

HeapSaveHdr ==
    \E s \in Loaded, opened \in BOOLEAN :
        ranBool("imageSaveHdr", s, imageSaveHdrMem(heapNow, s, opened))

NextHeap ==
    \/ HeapUnload \/ HeapRef \/ HeapDropRef \/ HeapMove \/ HeapCopy
    \/ HeapConvert \/ HeapRefOrConvert
    \/ HeapResize \/ HeapGenerateMipMapChain \/ HeapApplyGamma \/ HeapClamp
    \/ HeapCubemapFromCross \/ HeapCrossFromCubemap
    \/ HeapCubemapFromLatLong \/ HeapLatLongFromCubemap
    \/ HeapHStripFromCubemap \/ HeapCubemapFromHStrip
    \/ HeapFaceListFromCubemap \/ HeapCubemapFromFaceList
    \/ HeapLoadFile \/ HeapLoad \/ HeapSave \/ HeapSaveHdr

SpecHeap == InitHeap /\ [][NextHeap]_vars

\* The last call and the call before which `src` was taken.
lastCall == hist[Len(hist)]

\* The remaps with an output image and the loaders.
RemapsAndLoaders ==
    {"imageCubemapFromCross", "imageCubemapFromLatLong",
     "imageLatLongFromCubemap", "imageHStripFromCubemap",
     "imageCubemapFromHStrip", "imageFaceListFromCubemap",
     "imageCubemapFromFaceList", "imageCrossFromCubemap", "imageLoad"}
        \cup Loads

\* C13: whenever a remap with an output image or a loader returns false,
\* the output image (every image of the caller, the face list included)
\* has the width, height, format, mip count, face count and data pointer
\* it had before the call, its buffer was not written, and the live
\* buffers are those that were live before the call.
C13_FailureLeavesOutputUntouched ==
    (/\ hist # <<>>
     /\ lastCall.op \in RemapsAndLoaders
     /\ ~lastCall.ret)
        => /\ image = src.img
           /\ out.dirty = {}
           /\ out.live = src.live

\* A remap has returned false for an output image that holds a buffer.
C13_Witness ==
    /\ hist # <<>>
    /\ lastCall.op = "imageCubemapFromHStrip"
    /\ ~lastCall.ret
    /\ lastCall.dst \in Dsts
    /\ image[lastCall.dst].m_data \in out.live
    /\ image[lastCall.dst].m_dataSize > 0

\* The buffers the caller can reach: those of the images that own one.
reachable ==
    {image[x].m_data :
        x \in Owners \cup (IF out.rIsRef THEN {} ELSE {"r"})} \ {NULL}

\* C15: after any sequence of operations the live allocations are the
\* buffers reachable from the caller's images: every temporary buffer of
\* an operation has been freed when it returns.
C15_TemporariesAreFreed == out.live = reachable

----------------------------------------------------------------------------
(* DDS files whose pixel format the tables may not know. *)

\* Pixel format flags and bit counts of the headers drawn.
GuessFlags == {0, DDPF_RGB, DDPF_RGBA}
GuessBitCounts == {0, 8, 16, 24, 32, 48, 64, 96, 128}

\* The file imageSaveDds writes for `base`, but for the flags and the bit
\* count of its pixel format; the four-character code is 0.
ddsFileWithPixelFormat(base, flags, rgbBitCount) ==
    LET hd == ddsHeaderFromImage(base)
    IN  ddsFile([hd.hdr EXCEPT !.m_pixelFormat =
                    DdsPixelFormat(flags, 0, rgbBitCount, <<0, 0, 0, 0>>)],
                hd.dxt10, FALSE, bufferBytes(base.m_data, base.m_dataSize))

InitGuess ==
    /\ \E base \in HeaderImages("BGR8"), flags \in GuessFlags,
          rgbBitCount \in GuessBitCounts :
         /\ src = [base |-> base, flags |-> flags, rgbBitCount |-> rgbBitCount]
         /\ file = ddsFileWithPixelFormat(base, flags, rgbBitCount)
    /\ image = NoImage
    /\ hist = <<>>
    /\ out = <<>>
    /\ ub = FALSE

\* imageLoadDds of the file; the byte that lies before s_imageDataInfo is
\* whatever the build has put there.
LoadGuess ==
    /\ hist = <<>>
    /\ \E junk \in {0, 255} :
         LET r == imageLoadDds(file, junk)
         IN  /\ image' = IF r.ok THEN r.image ELSE image
             /\ out' = [rewind |-> r.rewind, guessed |-> r.guessed]
             /\ ub' = (ub \/ r.ub)
             /\ hist' = Append(hist, [op |-> "imageLoadDds", ok |-> r.ok])
    /\ UNCHANGED <<src, file>>

NextGuess == LoadGuess

SpecGuess == InitGuess /\ [][NextGuess]_vars

\* The formats of s_ddsValidFormats that take `bytesPerPixel` bytes.
ddsLegalOfSize(bytesPerPixel) ==
    {s_ddsValidFormats[ii] : ii \in 1..Len(s_ddsValidFormats)}
        \cap {f \in FormatSet : bytesPerPixelOf(f) = bytesPerPixel}

\* C17: when neither the DXGI table nor the D3DFMT / bit-count table gives
\* the format of a DDS file, imageLoadDds reads only the five entries of
\* s_ddsValidFormats, takes one of BGR8, BGRA8, RGBA16, RGBA16F, RGBA32F
\* whose bytes per pixel are rgbBitCount/8, and returns false when none of
\* the five has that size.
C17_GuessIsDdsLegalOfThatSize ==
    (hist # <<>> /\ out.guessed)
        => /\ ~ub
           /\ hist[1].ok = (ddsLegalOfSize(src.rgbBitCount \div 8) # {})
           /\ hist[1].ok
                => image.m_format \in ddsLegalOfSize(src.rgbBitCount \div 8)

\* C19: imageIsCubeCross returns false for every image whose width to
\* height ratio is neither 3:4 nor 4:3, a square or a 1:2 image for
\* instance, whatever its pixels hold (all of them black included).
C19_OtherAspectsAreNotCrosses ==
    LET last == hist[Len(hist)]
        img == last.before
    IN  (/\ hist # <<>>
         /\ last.op = "imageIsCubeCross"
         /\ 4 * img.m_width # 3 * img.m_height
         /\ 3 * img.m_width # 4 * img.m_height
         /\ ~ub)
            => ~last.ok

\* The byte offset lies in a tile of the cross that holds no face.
keyPointInBackground(cross, vertical, offset) ==
    LET pixel == offset \div bytesPerPixelOf(cross.m_format)
        faceSize == cross.m_width \div (IF vertical THEN 3 ELSE 4)
        tile == <<(pixel % cross.m_width) \div faceSize,
                  (pixel \div cross.m_width) \div faceSize>>
    IN  /\ offset + bytesPerPixelOf(cross.m_format) <= cross.m_dataSize
        /\ \A face \in 0..5 : faceTile(face, vertical) # tile

\* C20: on the cross imageCrossFromCubemap makes of a single-mip cube map
\* (vertical or horizontal, whatever the face size and the format), each
\* of the six key points of imageIsCubeCross lies in a tile that holds no
\* face, and imageIsCubeCross returns true whatever the faces hold.
C20_CrossOfCubemapIsCubeCross ==
    LET last == hist[Len(hist)]
        made == hist[Len(hist) - 1]
        cross == last.before
    IN  (/\ Len(hist) >= 2
         /\ last.op = "imageIsCubeCross"
         /\ made.op = "imageCrossFromCubemap" /\ made.ok
         /\ made.before.m_numFaces = 6 /\ made.before.m_numMips = 1
         /\ ~ub)
            => /\ last.ok
               /\ \A key \in 1..6 :
                     keyPointInBackground(
                        cross, made.vertical,
                        keyPointsOffsets(cross, aspectWithin34(cross))[key])

\* C21: imageCubemapFromCross returns false and makes no image for every
\* source whose width to height ratio is neither 3:4 nor 4:3, the images
\* narrower than 3:4 (1:2, 2:3) in particular.
C21_CubemapFromOtherAspectsRefused ==
    LET last == hist[Len(hist)]
        s == last.before
    IN  (/\ hist # <<>>
         /\ last.op = "imageCubemapFromCross"
         /\ 4 * s.m_width # 3 * s.m_height
         /\ 3 * s.m_width # 4 * s.m_height)
            => ~last.ok /\ image = s

\* C29: for every source imageCubemapFromCross accepts, every row it copies
\* is read from inside the source buffer, and lies within one row of the
\* source (column offset + face pitch <= image pitch).
C29_CrossCopiesStayInsideSourceRows ==
    LET last == hist[Len(hist)]
        s == last.before
        imagePitch == s.m_width * bytesPerPixelOf(s.m_format)
        copies == cubemapFromCrossCopies(s, aspectWithin34(s))
    IN  (hist # <<>> /\ last.op = "imageCubemapFromCross" /\ last.ok)
            => \A k \in 1..Len(copies) :
                  /\ copies[k].src + copies[k].n <= s.m_dataSize
                  /\ (copies[k].src % imagePitch) + copies[k].n <= imagePitch

----------------------------------------------------------------------------
(* TGA files: imageLoadTga on the bytes of a file. *)

TGA_HEADER_SIZE == 18
TGA_IT_RLE == 8

\* The 18 bytes of a TGA header; origins and colour map origin are 0.
tgaHeaderBytes(h) ==
    <<h.m_idLength, h.m_colorMapType, h.m_imageType, 0, 0,
      h.m_colorMapLength % 256, h.m_colorMapLength \div 256,
      h.m_colorMapDepth, 0, 0, 0, 0,
      h.m_width % 256, h.m_width \div 256,
      h.m_height % 256, h.m_height \div 256,
      h.m_bitsPerPixel, h.m_imageDescriptor>>

\* The header fields imageLoadTga reads, by their position in the file.
tgaHeaderOf(f) ==
    [m_idLength |-> f[1], m_colorMapType |-> f[2], m_imageType |-> f[3],
     m_colorMapLength |-> f[6] + 256 * f[7], m_colorMapDepth |-> f[8],
     m_width |-> f[13] + 256 * f[14], m_height |-> f[15] + 256 * f[16],
     m_bitsPerPixel |-> f[17], m_imageDescriptor |-> f[18]]

\* isTga(_magic) of imageLoad, on the first four bytes of the file.
isTga(f) ==
    LET colorMapType == f[2]
        imageType == f[3]
    IN  CASE imageType \in {1, 9}         -> 1 = colorMapType
          [] imageType \in {2, 3, 10, 11} -> 0 = colorMapType
          [] OTHER                        -> FALSE

\* fread of n bytes at position pos (from 0) of the file, as a sequence.
freadSeq(f, pos, n, junk) ==
    [k \in 1..n |-> IF pos + k <= Len(f) THEN f[pos + k] ELSE junk]

\* The pixel buf[1..] written count times.
RECURSIVE repeatPixel(_, _)
repeatPixel(pixel, count) ==
    IF count = 0 THEN <<>> ELSE pixel \o repeatPixel(pixel, count - 1)

RECURSIVE tgaRleLoop(_, _, _, _, _, _, _)
\* while (n < numPixels): one packet per turn.  The packet's first pixel is
\* written, then `count` more: copies of it for a run (bit 0x80), pixels
\* read from the file otherwise.  `written` holds every byte stored through
\* dataPtr, in order, whether or not it still lies in the buffer.
tgaRleLoop(f, pos, n, numPixels, numBytesPerPixel, written, junk) ==
    IF n >= numPixels THEN [written |-> written, n |-> n]
    ELSE LET buf == freadSeq(f, pos, numBytesPerPixel + 1, junk)
             count == buf[1] % 128
             pixel == SubSeq(buf, 2, numBytesPerPixel + 1)
             isRun == buf[1] >= 128
             more == IF isRun THEN repeatPixel(pixel, count)
                     ELSE freadSeq(f, pos + numBytesPerPixel + 1,
                                   count * numBytesPerPixel, junk)
             next == pos + numBytesPerPixel + 1
                       + (IF isRun THEN 0 ELSE count * numBytesPerPixel)
         IN  tgaRleLoop(f, next, n + 1 + count, numPixels, numBytesPerPixel,
                        written \o pixel \o more, junk)

\* The flips of imageLoadTga on the image it has filled.
tgaFlip(result, imageDescriptor) ==
    LET flipY == BitAnd(imageDescriptor, TGA_DESC_HORIZONTAL) # 0
        flipX == BitAnd(imageDescriptor, TGA_DESC_VERTICAL) = 0
        afterX == IF flipX THEN imageTransform(result, "FLIP_X", 0) ELSE result
    IN  IF flipY THEN imageTransform(afterX, "FLIP_Y", 0) ELSE afterX

\* The bytes stored through `data` and the pixel count reached: the
\* packets of a compressed payload, dataSize bytes of the file otherwise.
tgaPayload(f, from, h, junk) ==
    LET numBytesPerPixel == h.m_bitsPerPixel \div 8
        numPixels == h.m_width * h.m_height
        dataSize == numPixels * numBytesPerPixel
    IN  IF BitAnd(h.m_imageType, TGA_IT_RLE) # 0
        THEN LET rle == tgaRleLoop(f, from, 0, numPixels, numBytesPerPixel,
                                   <<>>, junk)
             IN  [bytes |-> rle.written, n |-> rle.n]
        ELSE [bytes |-> freadSeq(f, from, dataSize, junk), n |-> numPixels]

\* The image made of the bytes stored, those that fell into the buffer.
tgaResult(h, format, stored) ==
    LET dataSize == h.m_width * h.m_height * (h.m_bitsPerPixel \div 8)
    IN  [ok |-> TRUE,
         image |-> tgaFlip(Image(h.m_width, h.m_height, format, 1, 1, dataSize,
                                 [i \in 0..(dataSize - 1) |-> stored.bytes[i + 1]]),
                           h.m_imageDescriptor),
         ub |-> Len(stored.bytes) > dataSize,
         n |-> stored.n]

\* imageLoadTga(_image, _fp) on a file that holds the 18 bytes of a header.
imageLoadTga(f, junk) ==
    LET h == tgaHeaderOf(f)
        format == IF 24 = h.m_bitsPerPixel THEN "BGR8"
                  ELSE IF 32 = h.m_bitsPerPixel THEN "BGRA8"
                  ELSE "Unknown"
        skip == h.m_idLength + (h.m_colorMapType % 2) * h.m_colorMapLength
    IN  IF 0 = BitAnd(TGA_IT_RGB, h.m_imageType) \/ format = "Unknown"
        THEN [ok |-> FALSE, image |-> NoImage, ub |-> FALSE, n |-> 0]
        ELSE tgaResult(h, format,
                       tgaPayload(f, TGA_HEADER_SIZE + skip, h, junk))

\* Largest width and height of the TGA images drawn.
MaxTgaDim == 2

\* The packet heads drawn: 1 or 2 literal pixels, runs of 1, 2 and 4.
PacketHeads == {0, 1, 128, 129, 131}

\* The pixel of a payload that is numbered `label`.
tgaPixel(label, numBytesPerPixel) ==
    [k \in 1..numBytesPerPixel |-> Label(label * numBytesPerPixel + k - 1)]

RECURSIVE tgaPixels(_, _, _)
tgaPixels(label, count, numBytesPerPixel) ==
    IF count = 0 THEN <<>>
    ELSE tgaPixel(label, numBytesPerPixel)
            \o tgaPixels(label + 1, count - 1, numBytesPerPixel)

RECURSIVE tgaPackets(_, _, _)
\* The bytes of the packets whose heads are `heads`, the pixels numbered
\* from `label` on.
tgaPackets(heads, label, numBytesPerPixel) ==
    IF heads = <<>> THEN <<>>
    ELSE LET head == heads[1]
             stored == IF head >= 128 THEN 1 ELSE 1 + (head % 128)
         IN  <<head>> \o tgaPixels(label, stored, numBytesPerPixel)
                \o tgaPackets(Tail(heads), label + stored, numBytesPerPixel)

\* A TGA file: the header, then the packets of `heads` followed by
\* literal packets of one pixel for a compressed type, the pixels in a row
\* otherwise.
tgaFile(h, heads) ==
    LET numBytesPerPixel == h.m_bitsPerPixel \div 8
        numPixels == h.m_width * h.m_height
    IN  tgaHeaderBytes(h)
        \o (IF BitAnd(h.m_imageType, TGA_IT_RLE) # 0
            THEN tgaPackets(heads \o [k \in 1..numPixels |-> 0], 0,
                            numBytesPerPixel)
            ELSE tgaPixels(0, numPixels, numBytesPerPixel))

TgaFileHeaders ==
    [m_idLength : {0}, m_colorMapType : {0, 1}, m_colorMapLength : {0},
     m_colorMapDepth : {0}, m_imageType : {1, 2, 3, 9, 10, 11},
     m_width : 1..MaxTgaDim, m_height : 1..MaxTgaDim,
     m_bitsPerPixel : {16, 24, 32},
     m_imageDescriptor : {0, TGA_DESC_VERTICAL}]

TgaHeads ==
    {<<>>} \cup {<<a>> : a \in PacketHeads}
           \cup {<<a, b>> : a \in PacketHeads, b \in PacketHeads}

InitTga ==
    /\ \E h \in TgaFileHeaders, heads \in TgaHeads :
         /\ src = [header |-> h, heads |-> heads]
         /\ file = tgaFile(h, heads)
    /\ image = NoImage
    /\ hist = <<>>
    /\ out = <<>>
    /\ ub = FALSE

\* imageLoadTga of the file.
LoadTga ==
    /\ hist = <<>>
    /\ \E junk \in {0, 255} :
         LET r == imageLoadTga(file, junk)
         IN  /\ image' = IF r.ok THEN r.image ELSE image
             /\ out' = [n |-> r.n, isTga |-> isTga(file)]
             /\ ub' = (ub \/ r.ub)
             /\ hist' = Append(hist, [op |-> "imageLoadTga", ok |-> r.ok])
    /\ UNCHANGED <<src, file>>

NextTga == LoadTga

SpecTga == InitTga /\ [][NextTga]_vars

\* C22: imageLoadTga returns false and makes no image for every header
\* whose imageType does not satisfy (imageType & 3) = 2; the types 3 and
\* 11, which isTga lets through, are refused also for 24 and 32 bits per
\* pixel.
C22_TgaOnlyTrueColour ==
    (hist # <<>> /\ BitAnd(src.header.m_imageType, 3) # 2)
        => ~hist[1].ok /\ image = NoImage

\* C28: while imageLoadTga decodes a run-length encoded payload it never
\* stores a pixel outside the buffer of width * height pixels, whatever the
\* packets of the file, and the loop ends with exactly width * height
\* pixels stored.
C28_TgaRleStaysInBuffer ==
    (/\ hist # <<>> /\ hist[1].ok
     /\ BitAnd(src.header.m_imageType, TGA_IT_RLE) # 0)
        => /\ ~ub
           /\ out.n = src.header.m_width * src.header.m_height

----------------------------------------------------------------------------
(* imageGenerateMipMapChain on the floats of the image: the levels copied
   and the levels computed. *)

\* The float nearest to n * 2^k (ties to the even significand) with sign
\* s, for an integer 0 <= n < 2^29: what an IEEE single operation stores
\* for an exact result n * 2^k.
roundFloat(s, n, k) ==
    IF n = 0 THEN Float(s, 0, 0)
    ELSE LET q == Max2(floorLog2(n) + k - 23, -149)
             d == q - k
             kept == IF d <= 0 THEN n * Pow2(-d)
                     ELSE IF d > 30 THEN 0 ELSE n \div Pow2(d)
             rest == IF d <= 0 THEN 0
                     ELSE IF d > 30 THEN n ELSE n % Pow2(d)
             half == IF d <= 0 \/ d > 30 THEN 0 ELSE Pow2(d - 1)
             up == /\ d > 0 /\ d <= 30
                   /\ (rest > half \/ (rest = half /\ kept % 2 = 1))
             sig0 == kept + (IF up THEN 1 ELSE 0)
             carry == sig0 >= 16777216
             sig == IF carry THEN 8388608 ELSE sig0
             e == (IF carry THEN q + 1 ELSE q) + 150
         IN  IF sig < 8388608 THEN Float(s, 0, sig)
             ELSE IF e >= 255 THEN Float(s, 255, 0)
             ELSE Float(s, e, sig - 8388608)

\* a + b on floats.  The smaller operand is aligned to the larger with
\* three more bits, the last of them sticky; an infinity or a NaN comes
\* back as it is (an infinity less an infinity is a NaN).
floatAdd(a, b) ==
    LET aIsBig == \/ exponentOf(a) > exponentOf(b)
                  \/ (exponentOf(a) = exponentOf(b)
                        /\ significand(a) >= significand(b))
        x == IF aIsBig THEN a ELSE b
        y == IF aIsBig THEN b ELSE a
        d == exponentOf(x) - exponentOf(y)
        full == significand(y) * 8
        cut == IF d > 27 THEN 0 ELSE full \div Pow2(d)
        sticky == IF d > 27 THEN full # 0 ELSE full % Pow2(d) # 0
        small == IF sticky /\ cut % 2 = 0 THEN cut + 1 ELSE cut
        big == significand(x) * 8
        n == IF x.s = y.s THEN big + small ELSE big - small
    IN  IF a.e = 255 \/ b.e = 255
        THEN IF a.e = 255 /\ b.e = 255 /\ a.m = 0 /\ b.m = 0 /\ a.s # b.s
             THEN Float(0, 255, 4194304)
             ELSE IF a.e = 255 /\ (a.m # 0 \/ b.e # 255) THEN a ELSE b
        ELSE IF n = 0 THEN Float(IF a.s = b.s THEN a.s ELSE 0, 0, 0)
        ELSE roundFloat(x.s, n, exponentOf(x) - 3)

\* x * 0.25f
floatQuarter(x) ==
    IF x.e = 255 THEN x
    ELSE roundFloat(x.s, significand(x), exponentOf(x) - 2)

\* A filter that leaves out the second parent row.
boxFilter_oneRow(p00, p10, p01, p11) ==
    floatQuarter(floatAdd(floatAdd(floatAdd(floatAdd(FloatZero, p00), p10),
                                   p00), p10))

\* color[c] = 0.0f; color[c] += each of the four parents, the row yy*2
\* first; color[c] * 0.25f.
boxFilter(p00, p10, p01, p11) ==
    floatQuarter(floatAdd(floatAdd(floatAdd(floatAdd(FloatZero, p00), p10),
                                   p01), p11))

RECURSIVE chainTexel(_, _, _, _, _, _, _)
\* The float stored for channel c of texel (xx, yy) of level mip of a face
\* of the chain: a level the source has is copied from it; another is
\* filtered from the four floats found in the level before of the
\* destination, at parentPitch*yParent + xParent*bytesPerPixel, which for
\* an xParent past the parent's width is a texel of its next row and for a
\* place past the parent level is whatever lies there.
chainTexel(imageRgba32f, face, mip, xx, yy, c, junk) ==
    LET width == mipDim(imageRgba32f.m_width, mip)
        parentWidth == mipDim(imageRgba32f.m_width, mip - 1)
        parentHeight == mipDim(imageRgba32f.m_height, mip - 1)
        parent(xParent, yParent) ==
            LET p == parentWidth * yParent + xParent
            IN  IF p < parentWidth * parentHeight
                THEN chainTexel(imageRgba32f, face, mip - 1, p % parentWidth,
                                p \div parentWidth, c, junk)
                ELSE floatOfBytes(<<junk, junk, junk, junk>>)
    IN  IF mip < imageRgba32f.m_numMips
        THEN floatOfBytes(readBytes(imageRgba32f.m_data,
                                    imageGetMipOffsets(imageRgba32f, face, mip)
                                       + (yy * width + xx) * 16 + c * 4,
                                    4, junk))
        ELSE boxFilter(parent(xx * 2, yy * 2), parent(xx * 2 + 1, yy * 2),
                       parent(xx * 2, yy * 2 + 1),
                       parent(xx * 2 + 1, yy * 2 + 1))

\* The byte at offset i of the chain's buffer.
chainByte(imageRgba32f, mipCount, i, junk) ==
    LET faceDataSize == sumMipSizes(imageRgba32f, mipCount)
        face == i \div faceDataSize
        mip == CHOOSE m \in 0..(mipCount - 1) :
                  /\ sumMipSizes(imageRgba32f, m) <= i % faceDataSize
                  /\ i % faceDataSize < sumMipSizes(imageRgba32f, m + 1)
        at == (i % faceDataSize) - sumMipSizes(imageRgba32f, mip)
        width == mipDim(imageRgba32f.m_width, mip)
    IN  floatToBytes(chainTexel(imageRgba32f, face, mip, (at \div 16) % width,
                                (at \div 16) \div width, (at % 16) \div 4,
                                junk))[(at % 4) + 1]

\* A computed level reads past the level before it: its parent is less
\* than twice as wide or as high.
chainReadsPastParent(imageRgba32f, mipCount) ==
    \E mip \in imageRgba32f.m_numMips..(mipCount - 1) :
        \/ 2 * mipDim(imageRgba32f.m_width, mip)
              > mipDim(imageRgba32f.m_width, mip - 1)
        \/ 2 * mipDim(imageRgba32f.m_height, mip)
              > mipDim(imageRgba32f.m_height, mip - 1)

\* The chain of the RGBA32F image: `result` before it is converted.
mipChainResult(imageRgba32f, numMips, junk) ==
    LET maxMipNum == Min2(numMips, MAX_MIP_NUM)
        mipCount == mipChainCount(imageRgba32f, maxMipNum, 0)
        dstDataSize == imageRgba32f.m_numFaces
                          * sumMipSizes(imageRgba32f, mipCount)
    IN  [img |-> Image(imageRgba32f.m_width, imageRgba32f.m_height, "RGBA32F",
                       mipCount, imageRgba32f.m_numFaces, dstDataSize,
                       [i \in 0..(dstDataSize - 1) |->
                           chainByte(imageRgba32f, mipCount, i, junk)]),
         ub |-> \/ layoutOverrun(imageRgba32f)
                \/ chainReadsPastParent(imageRgba32f, mipCount)]

\* The result in the format of the image: moved, or converted.
chainToSourceFormat(result, format, ubBefore, junk) ==
    LET back == IF format = "RGBA32F" THEN result
                ELSE imageConvert(format, result.img, junk)
    IN  [img |-> back.img, ub |-> ubBefore \/ result.ub \/ back.ub]

\* imageGenerateMipMapChain(_image, _numMips)
imageGenerateMipMapChain(img, numMips, junk) ==
    LET conv == IF img.m_format = "RGBA32F" THEN [img |-> img, ub |-> FALSE]
                ELSE imageToRgba32f(img, junk)
    IN  chainToSourceFormat(mipChainResult(conv.img, numMips, junk),
                            img.m_format, conv.ub, junk)

\* Largest width and height of the images whose levels are computed.
MaxMeanDim == 4

\* The floats the texels are made of: quarters between -1/2 and 3/2.
MeanFloats ==
    <<FloatZero, dyadic(1, -2), dyadic(1, -1), FloatOne, dyadic(3, -1),
      [dyadic(1, -1) EXCEPT !.s = 1], dyadic(5, -2)>>

\* A well-formed image of floats, the k-th float of its buffer being
\* MeanFloats[(3k + seed) mod 7].
MeanImage(w, h, format, numMips, numFaces, seed) ==
    LET info == infoOf(Image(w, h, format, numMips, numFaces, 0, <<>>))
        size == expectedDataSize(info)
    IN  Image(w, h, format, numMips, numFaces, size,
              [i \in 0..(size - 1) |->
                  floatToBytes(MeanFloats[(((i \div 4) * 3 + seed) % 7) + 1])
                      [(i % 4) + 1]])

MeanImages ==
    {MeanImage(wh[1], wh[2], fs[1], m, 1, fs[2]) :
        wh \in (1..MaxMeanDim) \X (1..MaxMeanDim), m \in 1..2,
        fs \in {<<"RGBA32F", 0>>, <<"RGBA32F", 1>>, <<"RGB32F", 0>>}}
    \cup {MeanImage(2, 2, f, 1, 6, 0) : f \in {"RGBA32F", "RGB32F"}}

\* The values of _numMips asked for.
MeanRequests == {1, 2, 16}

InitMean ==
    /\ image \in {img \in MeanImages :
                     img.m_numMips <= naturalMipCount(img.m_width,
                                                      img.m_height)}
    /\ src = image
    /\ file = NoFile
    /\ hist = <<>>
    /\ out = <<>>
    /\ ub = FALSE

\* imageGenerateMipMapChain(_image, _numMips)
GenerateChain ==
    /\ hist = <<>>
    /\ \E numMips \in MeanRequests, junk \in {0, 255} :
          LET r == imageGenerateMipMapChain(image, numMips, junk)
          IN  /\ image' = r.img
              /\ ub' = (ub \/ r.ub)
              /\ hist' = <<[op |-> "imageGenerateMipMapChain",
                            numMips |-> numMips]>>
    /\ UNCHANGED <<src, file, out>>

NextMean == GenerateChain

SpecMean == InitMean /\ [][NextMean]_vars

\* The float of channel c of texel (x, y) of a level of a face of an image
\* of floats.
texelFloat(img, face, mip, x, y, c) ==
    floatOfBytes(readBytes(img.m_data,
                           imageGetMipOffsets(img, face, mip)
                              + (y * mipDim(img.m_width, mip) + x)
                                   * bytesPerPixelOf(img.m_format)
                              + c * 4,
                           4, 0))

\* A float as a whole number of 1/256, where it is one.
isIn256ths(x) ==
    /\ x.e < 255
    /\ exponentOf(x) + 8 < 0
          => /\ exponentOf(x) + 8 >= -30 \/ significand(x) = 0
             /\ exponentOf(x) + 8 >= -30
                   => significand(x) % Pow2(-(exponentOf(x) + 8)) = 0
in256ths(x) ==
    (IF x.s = 1 THEN -1 ELSE 1) * shift(significand(x), exponentOf(x) + 8)

\* The texels of a level of an image.
levelTexels(img, mip) ==
    (0..(mipDim(img.m_width, mip) - 1)) \X (0..(mipDim(img.m_height, mip) - 1))

\* C23: after imageGenerateMipMapChain every level the source has is in
\* the result as it was, and every other level m >= 1 holds, for every
\* face, texel (x, y) and channel (alpha included), the mean of the texels
\* (2x, 2y), (2x+1, 2y), (2x, 2y+1), (2x+1, 2y+1) of level m-1 of the
\* result.
C23_LevelsCopiedOrAveraged ==
    (hist # <<>> /\ ~ub)
        => \A face \in 0..(image.m_numFaces - 1), mip \in 0..(image.m_numMips - 1) :
              \A t \in levelTexels(image, mip) :
                 \A c \in 0..((bytesPerPixelOf(image.m_format) \div 4) - 1) :
                    LET now == texelFloat(image, face, mip, t[1], t[2], c)
                        up(dx, dy) == texelFloat(image, face, mip - 1,
                                                 2 * t[1] + dx, 2 * t[2] + dy, c)
                    IN  IF mip < src.m_numMips
                        THEN now = texelFloat(src, face, mip, t[1], t[2], c)
                        ELSE /\ <<2 * t[1] + 1, 2 * t[2] + 1>>
                                   \in levelTexels(image, mip - 1)
                             /\ isIn256ths(now)
                             /\ \A dx \in 0..1, dy \in 0..1 : isIn256ths(up(dx, dy))
                             /\ 4 * in256ths(now)
                                   = in256ths(up(0, 0)) + in256ths(up(1, 0))
                                       + in256ths(up(0, 1)) + in256ths(up(1, 1))

\* C23 witness: an RGBA32F image of one level was given three; the second
\* and the third are computed, the third from the second, and the alpha of
\* the one texel of the third is not that of the first texel of the image.
C23_Witness ==
    /\ hist # <<>> /\ ~ub
    /\ src.m_format = "RGBA32F" /\ src.m_numMips = 1
    /\ src.m_width = 4 /\ src.m_height = 4
    /\ image.m_numMips = 3
    /\ texelFloat(image, 0, 2, 0, 0, 3) # texelFloat(src, 0, 0, 0, 0, 3)
    /\ 4 * in256ths(texelFloat(image, 0, 2, 0, 0, 3))
          = in256ths(texelFloat(image, 0, 1, 0, 0, 3))
              + in256ths(texelFloat(image, 0, 1, 1, 0, 3))
              + in256ths(texelFloat(image, 0, 1, 0, 1, 3))
              + in256ths(texelFloat(image, 0, 1, 1, 1, 3))

----------------------------------------------------------------------------
(* HDR files: imageSaveHdr and imageLoadHdr on the bytes of a file. *)

HDR_MAGIC_LEN == 10
\* "#?RADIANCE"
HDR_MAGIC_FULL ==
    <<35, 63, 82, 65, 68, 73, 65, 78, 67, 69>>

\* "# Output from cmft.\n"
hdrComment ==
    <<35, 32, 79, 117, 116, 112, 117, 116, 32, 102, 114, 111, 109, 32, 99,
      109, 102, 116, 46, 10>>

\* "FORMAT=32-bit_rle_rgbe\n"
hdrFormat ==
    <<70, 79, 82, 77, 65, 84, 61, 51, 50, 45, 98, 105, 116, 95, 114, 108,
      101, 95, 114, 103, 98, 101, 10>>

\* sprintf("EXPOSURE=%g\n", 1.0f)
hdrExposure ==
    <<69, 88, 80, 79, 83, 85, 82, 69, 61, 49, 10>>

\* sprintf("%d", n) of an n >= 0: its decimal digits as characters.
RECURSIVE decimalDigits(_)
decimalDigits(n) ==
    IF n < 10 THEN <<48 + n>>
    ELSE Append(decimalDigits(n \div 10), 48 + (n % 10))

\* sprintf(imageSize, "-Y %d +X %d\n", m_height, m_width)
hdrImageSize(height, width) ==
    <<45, 89, 32>> \o decimalDigits(height) \o <<32, 43, 88, 32>>
    \o decimalDigits(width) \o <<10>>

\* The rows imageSaveHdr writes: m_height times pitch bytes from m_data on.
hdrRows(imageRgbe) ==
    LET pitch == imageRgbe.m_width * bytesPerPixelOf(imageRgbe.m_format)
    IN  [k \in 1..(imageRgbe.m_height * pitch) |-> imageRgbe.m_data[k - 1]]

\* imageSaveHdr(_fileName, _image): the bytes of the file, for the RGBE
\* image imageRefOrConvert hands over (the image itself when it is RGBE).
imageSaveHdr(imageRgbe) ==
    HDR_MAGIC_FULL \o <<10>> \o hdrComment \o hdrFormat \o hdrExposure
    \o <<10>> \o hdrImageSize(imageRgbe.m_height, imageRgbe.m_width)
    \o hdrRows(imageRgbe)

\* fgets(buf, sizeof(buf), _fp) with pos bytes of the file consumed: the
\* characters up to and with the next '\n', 127 at most.
hdrGets(f, pos) ==
    LET avail == IF Len(f) - pos < 127 THEN Len(f) - pos ELSE 127
        ends == {k \in 1..avail : f[pos + k] = 10}
        n == IF ends = {} THEN avail
             ELSE CHOOSE k \in ends : \A j \in ends : k <= j
    IN  [line |-> SubSeq(f, pos + 1, pos + n), next |-> pos + n]

\* The file offset after the header loop: at most 20 lines, ended by a
\* line that starts with '\n' or 0.  Once fgets fails nothing more is
\* consumed.
RECURSIVE hdrHeaderEnd(_, _, _)
hdrHeaderEnd(f, pos, ii) ==
    IF ii = 20 THEN pos
    ELSE IF hdrGets(f, pos).line = <<>> THEN pos
    ELSE IF hdrGets(f, pos).line[1] \in {0, 10} THEN hdrGets(f, pos).next
    ELSE hdrHeaderEnd(f, hdrGets(f, pos).next, ii + 1)

isSpace(c) == c \in {9, 10, 11, 12, 13, 32}
isDigit(c) == c \in 48..57

\* White space of a scanf format or before a %d: skipped, none needed.
RECURSIVE skipSpaces(_, _)
skipSpaces(s, i) ==
    IF i <= Len(s) /\ isSpace(s[i]) THEN skipSpaces(s, i + 1) ELSE i

RECURSIVE scanDigits(_, _, _)
scanDigits(s, i, acc) ==
    IF i <= Len(s) /\ isDigit(s[i])
    THEN scanDigits(s, i + 1, acc * 10 + (s[i] - 48))
    ELSE [value |-> acc, next |-> i]

\* A %d conversion of sscanf at character i of s.
scanInt(s, i) ==
    LET j == skipSpaces(s, i)
        signed == j <= Len(s) /\ s[j] \in {43, 45}
        k == IF signed THEN j + 1 ELSE j
        d == scanDigits(s, k, 0)
    IN  [ok |-> d.next > k,
         value |-> IF signed /\ s[j] = 45 THEN 0 - d.value ELSE d.value,
         next |-> d.next]

\* sscanf(buf, "-Y %d +X %d", &height, &width): the count of conversions
\* made and the values stored.
scanImageSize(s) ==
    LET okY == Len(s) >= 2 /\ s[1] = 45 /\ s[2] = 89
        h == scanInt(s, 3)
        p == skipSpaces(s, h.next)
        okX == Len(s) >= p + 1 /\ s[p] = 43 /\ s[p + 1] = 88
        w == scanInt(s, p + 2)
    IN  [read |-> IF ~okY \/ ~h.ok THEN 0
                  ELSE IF ~okX \/ ~w.ok THEN 1 ELSE 2,
         height |-> h.value, width |-> w.value]

\* The test imageLoadHdr makes on the first four bytes of the payload:
\* TRUE when it takes the file for not run-length encoded.
hdrNotRle(width, rgbe) ==
    \/ width < 8
    \/ width > 32767
    \/ rgbe[1] # 2
    \/ rgbe[2] # 2
    \/ BitAnd(rgbe[3], 128) # 0

\* One pass of the loop `while (ptr < ptrEnd)`: the two bytes rle read at
\* pos, the bytes stored from ptr on and the file offset afterwards.
hdrChunk(f, pos, junk) ==
    LET rle == freadSeq(f, pos, 2, junk)
    IN  IF rle[1] > 128
        THEN [bytes |-> [k \in 1..(rle[1] - 128) |-> rle[2]],
              next |-> pos + 2]
        ELSE IF rle[1] - 1 > 0
        THEN [bytes |-> <<rle[2]>> \o freadSeq(f, pos + 2, rle[1] - 1, junk),
              next |-> pos + 2 + (rle[1] - 1)]
        ELSE [bytes |-> <<rle[2]>>, next |-> pos + 2]

\* The four loops over ii of one scanline: `written` is what has been
\* stored from scanlineBuffer[0] on, so ptr = scanlineBuffer + Len(written)
\* and ptrEnd = scanlineBuffer + width*(ii+1).
RECURSIVE hdrScanline(_, _, _, _, _, _)
hdrScanline(f, pos, width, ii, written, junk) ==
    IF ii = 4 THEN [bytes |-> written, next |-> pos]
    ELSE IF Len(written) < width * (ii + 1)
    THEN hdrScanline(f, hdrChunk(f, pos, junk).next, width, ii,
                     written \o hdrChunk(f, pos, junk).bytes, junk)
    ELSE hdrScanline(f, pos, width, ii + 1, written, junk)

\* "Copy scanline data": pixel ii takes scanlineBuffer[ii + c*width] as
\* its channel c.
hdrCopyScanline(scanlineBuffer, width) ==
    [k \in 1..(4 * width) |->
        scanlineBuffer[((k - 1) \div 4) + ((k - 1) % 4) * width + 1]]

\* The loop for (;;) over the scanlines, entered with the four bytes of a
\* scanline's header consumed and numScanlines more scanlines to follow
\* this one: the bytes stored from data on, and whether a write went past
\* the width*4 bytes of scanlineBuffer.
RECURSIVE hdrScanlines(_, _, _, _, _, _, _)
hdrScanlines(f, pos, width, numScanlines, stored, past, junk) ==
    LET s == hdrScanline(f, pos, width, 0, <<>>, junk)
        bytes == s.bytes
    IN  IF 0 = numScanlines
        THEN [bytes |-> stored \o hdrCopyScanline(bytes, width),
              ub |-> past \/ Len(bytes) > width * 4]
        ELSE hdrScanlines(f, s.next + 4, width, numScanlines - 1,
                          stored \o hdrCopyScanline(bytes, width),
                          past \/ Len(bytes) > width * 4, junk)

\* "Fill image structure" of imageLoadHdr.
hdrResult(width, height, stored, undefined) ==
    LET dataSize == width * height * 4
    IN  [ok |-> TRUE,
         image |-> Image(width, height, "RGBE", 1, 1, dataSize,
                         [i \in 0..(dataSize - 1) |-> stored[i + 1]]),
         ub |-> undefined \/ Len(stored) > dataSize]

\* The branch "File is RLE" of imageLoadHdr: numScanlines = height-1, and
\* the four bytes at pos are the first scanline's header.
hdrLoadRle(f, pos, size, junk) ==
    LET r == hdrScanlines(f, pos + 4, size.width, size.height - 1, <<>>,
                          FALSE, junk)
    IN  hdrResult(size.width, size.height, r.bytes, r.ub)

\* imageLoadHdr from "Allocate data" on, with the resolution line scanned
\* and pos bytes of the file consumed.  A size that was not scanned, or is
\* not positive, leaves the sizes of the buffer and of the reads to chance.
hdrLoadData(f, pos, size, junk) ==
    IF size.read # 2 \/ size.width < 1 \/ size.height < 1
    THEN [ok |-> TRUE, image |-> NoImage, ub |-> TRUE]
    ELSE IF hdrNotRle(size.width, freadSeq(f, pos, 4, junk))
    THEN hdrResult(size.width, size.height,
                   freadSeq(f, pos, size.width * size.height * 4, junk),
                   FALSE)
    ELSE hdrLoadRle(f, pos, size, junk)

\* imageLoadHdr from "Read empty line (end of header)" on: the line fgets
\* returns there is scanned for the image size.
hdrLoadSized(f, sizeLine, junk) ==
    hdrLoadData(f, sizeLine.next, scanImageSize(sizeLine.line), junk)

\* imageLoadHdr(_image, _fp)
imageLoadHdr(f, junk) ==
    LET first == hdrGets(f, 0)
    IN  IF \/ Len(first.line) < HDR_MAGIC_LEN
           \/ SubSeq(first.line, 1, HDR_MAGIC_LEN) # HDR_MAGIC_FULL
        THEN [ok |-> FALSE, image |-> NoImage, ub |-> first.line = <<>>]
        ELSE hdrLoadSized(f, hdrGets(f, hdrHeaderEnd(f, first.next, 0)),
                          junk)

\* ---- the inputs: RGBE images to save, and run-length encoded files ----

MaxHdrWidth == 9
MaxHdrHeight == 2

\* First pixels of the images saved: labels, and bytes that look like the
\* header of a run-length encoded scanline.
HdrFirstPixels(w) ==
    {<<Label(0), Label(1), Label(2), Label(3)>>,
     <<2, 2, 0, w>>, <<2, 2, 128, w>>, <<2, 3, 0, w>>}

HdrImage(w, h, first) ==
    Image(w, h, "RGBE", 1, 1, w * h * 4,
          [i \in 0..(w * h * 4 - 1) |->
              IF i < 4 THEN first[i + 1] ELSE Label(i)])

\* A chunk of a plane: a run of n copies of one byte, or n literal bytes.
hdrRun(n, base) == [run |-> TRUE, n |-> n, bytes |-> <<Label(base)>>]
hdrLiteral(n, base) ==
    [run |-> FALSE, n |-> n, bytes |-> [k \in 1..n |-> Label(base + k)]]

\* The chunks of one plane of `width` bytes.  Patterns 1 to 4 fill the
\* plane exactly with chunks of one byte or more; pattern 5 starts with a
\* literal chunk of no bytes; pattern 6 is a run one byte longer than the
\* plane.
HdrPlanePatterns == 1..6
hdrPlaneChunks(pattern, width, base) ==
    CASE pattern = 1 -> <<hdrRun(width, base)>>
      [] pattern = 2 -> <<hdrLiteral(width, base)>>
      [] pattern = 3 -> <<hdrRun(3, base), hdrLiteral(width - 3, base + 1)>>
      [] pattern = 4 -> <<hdrLiteral(1, base), hdrRun(width - 1, base + 2)>>
      [] pattern = 5 -> <<hdrLiteral(0, base), hdrLiteral(width, base)>>
      [] pattern = 6 -> <<hdrRun(width + 1, base)>>

\* A chunk in the file: the opcode byte, then the run's byte or the
\* literal bytes.
hdrChunkBytes(c) ==
    IF c.run THEN <<128 + c.n>> \o c.bytes ELSE <<c.n>> \o c.bytes

RECURSIVE hdrChunksBytes(_)
hdrChunksBytes(chunks) ==
    IF chunks = <<>> THEN <<>>
    ELSE hdrChunkBytes(Head(chunks)) \o hdrChunksBytes(Tail(chunks))

\* The labels of plane c of scanline y start at hdrPlaneBase(y, c).
hdrPlaneBase(y, c) == 16 * (4 * y + c) + 16

\* Scanline y of a file: the header 2, 2, hi, lo and the four planes.
hdrScanlineBytes(patterns, width, y) ==
    <<2, 2, width \div 256, width % 256>>
    \o hdrChunksBytes(hdrPlaneChunks(patterns[1], width, hdrPlaneBase(y, 0)))
    \o hdrChunksBytes(hdrPlaneChunks(patterns[2], width, hdrPlaneBase(y, 1)))
    \o hdrChunksBytes(hdrPlaneChunks(patterns[3], width, hdrPlaneBase(y, 2)))
    \o hdrChunksBytes(hdrPlaneChunks(patterns[4], width, hdrPlaneBase(y, 3)))

RECURSIVE hdrScanlinesBytes(_, _, _, _)
hdrScanlinesBytes(patterns, width, height, y) ==
    IF y = height THEN <<>>
    ELSE hdrScanlineBytes(patterns, width, y)
         \o hdrScanlinesBytes(patterns, width, height, y + 1)

\* A run-length encoded file of width x height with the header lines
\* imageSaveHdr writes.
hdrRleFile(patterns, width, height) ==
    HDR_MAGIC_FULL \o <<10>> \o hdrComment \o hdrFormat \o hdrExposure
    \o <<10>> \o hdrImageSize(height, width)
    \o hdrScanlinesBytes(patterns, width, height, 0)

InitHdr ==
    /\ \/ \E w \in 1..MaxHdrWidth, h \in 1..MaxHdrHeight :
            \E first \in HdrFirstPixels(w) :
                /\ src = [kind |-> "image", image |-> HdrImage(w, h, first)]
                /\ image = HdrImage(w, h, first)
                /\ file = NoFile
       \/ \E w \in 8..MaxHdrWidth, h \in 1..MaxHdrHeight,
             patterns \in [1..4 -> HdrPlanePatterns] :
                /\ src = [kind |-> "rle", width |-> w, height |-> h,
                          patterns |-> patterns]
                /\ image = NoImage
                /\ file = hdrRleFile(patterns, w, h)
    /\ hist = <<>>
    /\ out = <<>>
    /\ ub = FALSE

\* imageSaveHdr of the image.
SaveHdr ==
    /\ hist = <<>>
    /\ file = NoFile
    /\ file' = imageSaveHdr(image)
    /\ hist' = Append(hist, [op |-> "imageSaveHdr", ok |-> TRUE])
    /\ UNCHANGED <<image, src, out, ub>>

\* imageLoadHdr of the file.
LoadHdr ==
    /\ file # NoFile
    /\ \A k \in DOMAIN hist : hist[k].op # "imageLoadHdr"
    /\ \E junk \in {0, 255} :
         LET r == imageLoadHdr(file, junk)
         IN  /\ image' = IF r.ok THEN r.image ELSE image
             /\ ub' = (ub \/ r.ub)
             /\ hist' = Append(hist, [op |-> "imageLoadHdr", ok |-> r.ok])
    /\ UNCHANGED <<src, file, out>>

NextHdr == SaveHdr \/ LoadHdr

SpecHdr == InitHdr /\ [][NextHdr]_vars

\* TRUE once imageLoadHdr has run.
hdrLoaded == \E k \in DOMAIN hist : hist[k].op = "imageLoadHdr"

\* What a chunk emits: a run's byte n times, or the n literal bytes.
hdrChunkEmits(c) == IF c.run THEN [k \in 1..c.n |-> c.bytes[1]] ELSE c.bytes

RECURSIVE hdrChunksEmit(_)
hdrChunksEmit(chunks) ==
    IF chunks = <<>> THEN <<>>
    ELSE hdrChunkEmits(Head(chunks)) \o hdrChunksEmit(Tail(chunks))

\* Plane c of scanline y of the file made from src.
hdrPlane(y, c) ==
    hdrChunksEmit(hdrPlaneChunks(src.patterns[c + 1], src.width,
                                 hdrPlaneBase(y, c)))

\* The chunks of every plane emit `width` bytes between them.
hdrPlanesExact ==
    \A c \in 0..3 : Len(hdrPlane(0, c)) = src.width

\* C24: a run-length encoded file, each of whose planes is made of chunks
\* that emit `width` bytes between them (a run opcode N > 128 the next
\* byte N-128 times, a literal opcode N <= 128 the next N bytes), is
\* loaded as the RGBE image of width x height, one face and one mip, whose
\* pixel i of scanline y is (R[i], G[i], B[i], E[i]) of that scanline's
\* planes.
C24_RlePlanesInterleaved ==
    (src.kind = "rle" /\ hdrLoaded /\ hdrPlanesExact)
        => /\ hist[1].ok
           /\ image = Image(src.width, src.height, "RGBE", 1, 1,
                            src.width * src.height * 4,
                            [i \in 0..(src.width * src.height * 4 - 1) |->
                                hdrPlane(i \div (4 * src.width), i % 4)
                                        [((i \div 4) % src.width) + 1]])

\* C30: imageSaveHdr followed by imageLoadHdr gives back the RGBE image
\* that was saved, with its width, height and every byte.
C30_HdrRoundTrip ==
    (src.kind = "image" /\ hdrLoaded)
        => /\ hist[2].ok
           /\ image = src.image

----------------------------------------------------------------------------
(* The face size field of a KTX file *)

\* The value of the four bytes of a little-endian u32.
u32Value(bytes) ==
    bytes[1] + 256 * bytes[2] + 65536 * bytes[3] + 16777216 * bytes[4]

\* C25: for each mip level imageSaveKtx writes a face size field equal to
\* (pitch + pitchRounding) * height of that level, with pitchRounding =
\* (4 - pitch mod 4) & 3; for the 3x1 RGB8 image the field is 12 and is
\* followed by 9 payload bytes, 3 zero bytes and nothing more.
C25_KtxFaceSizeCountsRowPadding ==
    (hist # <<>> /\ hist[1].op = "imageSaveKtx" /\ hist[1].ok) =>
        /\ \A k \in 1..Len(out) :
              out[k].kind = "faceSize" =>
                  LET pitch == mipDim(src.m_width, out[k].mip)
                                   * bytesPerPixelOf(src.m_format)
                      pitchRounding == BitAnd(4 - (pitch % 4), 3)
                  IN  u32Value(out[k].bytes)
                          = (pitch + pitchRounding)
                                * mipDim(src.m_height, out[k].mip)
        /\ src = TestImage(3, 1, "RGB8", 1, 1) =>
              chunkBytes(out) = U32(12)
                                  \o [k \in 1..9 |-> src.m_data[k - 1]]
                                  \o zeroBytes(3)

----------------------------------------------------------------------------
(* imageFromRgba32f to every format, and the black pixel of a cross *)

\* Largest pixel count of the RGBA32F images converted.
MaxFromPixels == 2

\* The channel values of those images: -1/2, 0, 1/4, 1/2, 3/4, 1 and 2.
FromFloats ==
    {Float(1, 126, 0), FloatZero, Float(0, 125, 0), Float(0, 126, 0),
     Float(0, 126, 4194304), FloatOne, Float(0, 128, 0)}

\* Their pixels: (x, y, x, y) with y either 1/2 or 1.
FromPixels ==
    {<<x, y, x, y>> : x \in FromFloats, y \in {Float(0, 126, 0), FloatOne}}

\* The RGBA32F image of one row whose pixels are px.
FromImage(px) ==
    Image(Len(px), 1, "RGBA32F", 1, 1, 16 * Len(px),
          [i \in 0..(16 * Len(px) - 1) |->
              floatToBytes(px[(i \div 16) + 1][((i % 16) \div 4) + 1])
                  [(i % 4) + 1]])

InitFrom ==
    /\ \/ \E n \in 1..MaxFromPixels : \E px \in [1..n -> FromPixels] :
             /\ src = [kind |-> "rgba32f", pixels |-> px]
             /\ image = FromImage(px)
       \/ \E format \in FormatSet :
             /\ src = [kind |-> "cubemap", pixels |-> <<>>]
             /\ image = TestImage(1, 1, format, 1, 6)
    /\ file = NoFile
    /\ hist = <<>>
    /\ out = <<>>
    /\ ub = FALSE

\* imageFromRgba32f(_dst, _dstFormat, _src) into the image; `out` keeps, for
\* every pixel, how many bytes its converter stored.
FromRgba32f ==
    /\ hist = <<>>
    /\ src.kind = "rgba32f"
    /\ \E dstFormat \in FormatSet, junk \in {0, 255} :
          LET r == imageFromRgba32f(dstFormat, image, junk)
          IN  /\ image' = r.img
              /\ ub' = (ub \/ r.ub)
              /\ out' = [p \in 1..Len(src.pixels) |->
                            Len(fromRgba32f(dstFormat, src.pixels[p],
                                            junk).bytes)]
              /\ hist' = Append(hist, [op |-> "imageFromRgba32f",
                                       format |-> dstFormat])
    /\ UNCHANGED <<src, file>>

\* imageCrossFromCubemap(_dst, _src, _vertical) of a cube map; `out` keeps
\* how many bytes were stored at blackPixel, which has bytesPerPixel bytes.
CrossOfCubemap ==
    /\ hist = <<>>
    /\ src.kind = "cubemap"
    /\ \E vertical \in BOOLEAN, junk \in {0, 255} :
          LET r == imageCrossFromCubemap(image, vertical, junk)
          IN  /\ image' = IF r.ok THEN r.img ELSE image
              /\ ub' = (ub \/ r.ub)
              /\ out' = <<Len(blackPixel(image.m_format, junk).bytes)>>
              /\ hist' = Append(hist, [op |-> "imageCrossFromCubemap",
                                       format |-> image.m_format])
    /\ UNCHANGED <<src, file>>

NextFrom == FromRgba32f \/ CrossOfCubemap

SpecFrom == InitFrom /\ [][NextFrom]_vars

\* The normalized integer formats and their largest channel value.
UnormFormats == {"BGR8", "RGB8", "BGRA8", "RGBA8", "RGB16", "RGBA16"}
unormMax(format) == IF format \in {"RGB16", "RGBA16"} THEN 65535 ELSE 255

\* round(clamp(v, 0, 1) * maxValue), halves upwards, for a float whose
\* significand fits 8 bits.
roundedUnorm(v, maxValue) ==
    LET n == (significand(clamp01(v)) \div 65536) * maxValue
        k == exponentOf(clamp01(v)) + 16
    IN  IF k >= 0 THEN n * Pow2(k)
        ELSE IF k < -30 THEN 0
        ELSE (2 * n + Pow2(-k)) \div Pow2(1 - k)

\* The integer stored for channel c (0 = red .. 3 = alpha) of pixel p.
storedUnorm(img, p, c) ==
    LET at == p * bytesPerPixelOf(img.m_format)
        place == IF img.m_format \in {"BGR8", "BGRA8"} /\ c < 3
                 THEN 2 - c ELSE c
    IN  IF img.m_format \in {"RGB16", "RGBA16"}
        THEN img.m_data[at + 2 * c] + 256 * img.m_data[at + 2 * c + 1]
        ELSE img.m_data[at + place]

\* C26: converted to a normalized integer format, every channel value v is
\* stored as round(clamp(v, 0, 1) * MAX), to the nearest integer; 0.5 is
\* stored as 128 in an 8-bit format.
C26_UnormRoundsToNearest ==
    (/\ hist # <<>> /\ hist[1].op = "imageFromRgba32f"
     /\ hist[1].format \in UnormFormats)
        => \A p \in 1..Len(src.pixels) :
              \A c \in 0..(numChanelsOf(hist[1].format) - 1) :
                  storedUnorm(image, p - 1, c)
                      = roundedUnorm(src.pixels[p][c + 1],
                                     unormMax(hist[1].format))

\* C27: for every target format each pixel's converter stores exactly
\* bytesPerPixel(format) bytes, so that a conversion of P pixels stores P *
\* bytesPerPixel bytes and none past the end of the destination; the same
\* for the black pixel imageCrossFromCubemap builds.
C27_ConvertersWriteBytesPerPixel ==
    hist # <<>> =>
        \A p \in 1..Len(out) : out[p] = bytesPerPixelOf(hist[1].format)

====
